---- MODULE Spec2Model ----
(***************************************************************************)
(* Model of the YCSB-cpp record codec (utils/fields.h), of its vector      *)
(* serialisation (utils/serialization.h) and of the LMDB and Leaves        *)
(* adapters' row operations, at the level of bytes.                         *)
(*                                                                         *)
(* A buffer is a sequence of bytes (0..255); a pointer into a buffer is a  *)
(* 0-based offset.  A Slice is a (memory, size) pair: the memory that      *)
(* starts at the slice's data pointer and the number of bytes the slice    *)
(* covers.                                                                 *)
(***************************************************************************)
EXTENDS Integers, Sequences, FiniteSets, TLC

(***************************************************************************)
(* Bounds of the model.                                                    *)
(***************************************************************************)
\* pushes accepted by one Fields object / fields of one generated record
MaxFields == 2

(***************************************************************************)
(* Program constants.                                                      *)
(***************************************************************************)
\* sizeof(uint32_t)
SizeofU32 == 4

\* the fields the operations are called with: ("", "x"), ("a", ""), ("a", "x"),
\* ("b", "x"); names and values may be empty, and a name comes with two values
PushArgs ==
  { [name |-> << >>, value |-> << 120 >>], [name |-> << 97 >>, value |-> << >>],
    [name |-> << 97 >>, value |-> << 120 >>], [name |-> << 98 >>, value |-> << 120 >>] }
FieldNames == { e.name : e \in PushArgs }

(***************************************************************************)
(* Bytes and unsigned 32-bit integers (little endian, as on the hosts the  *)
(* reinterpret_casts of the code are run on).                              *)
(***************************************************************************)
\* A uint32_t is held as a number; every size and count of the model stays far
\* below 2^31, so that the casts from size_t and the increments never wrap.
EncodeU32(n) ==
  << n % 256, (n \div 256) % 256, (n \div 65536) % 256, (n \div 16777216) % 256 >>

\* *reinterpret_cast<const uint32_t*>(mem + off), for off + 4 <= Len(mem)
ReadU32(mem, off) ==
  mem[off + 1] + 256 * mem[off + 2] + 65536 * mem[off + 3] + 16777216 * mem[off + 4]

\* *reinterpret_cast<uint32_t*>(&mem[off]) = v
WriteU32(mem, off, v) ==
  SubSeq(SubSeq(mem, 1, off) \o EncodeU32(v) \o SubSeq(mem, off + SizeofU32 + 1, Len(mem)),
         1, Len(mem))

\* std::string::resize(n): truncates, or appends zero bytes
Resize(s, n) ==
  IF n <= Len(s) THEN SubSeq(s, 1, n) ELSE s \o [i \in 1..(n - Len(s)) |-> 0]

\* std::memcpy(&dst[0], src, Len(src))
Memcpy(dst, src) ==
  [i \in 1..Len(dst) |-> IF i <= Len(src) THEN src[i] ELSE dst[i]]

(***************************************************************************)
(* ReadonlyFields over a slice (m, n): m the memory at data_.data(), n =   *)
(* data_.size().  An iterator is its ptr_ (an offset into m); end_ is n.   *)
(***************************************************************************)
size(m, n) == IF n < SizeofU32 THEN 0 ELSE ReadU32(m, 0)

empty(m, n) == size(m, n) = 0

end(m, n) == n

begin(m, n) == IF n <= SizeofU32 THEN end(m, n) ELSE SizeofU32

\* iterator::name()
it_name(m, ptr) ==
  LET name_size == ReadU32(m, ptr)
  IN  SubSeq(m, ptr + 2 * SizeofU32 + 1, ptr + 2 * SizeofU32 + name_size)

\* iterator::value()
it_value(m, ptr) ==
  LET name_size  == ReadU32(m, ptr)
      value_size == ReadU32(m, ptr + SizeofU32)
  IN  SubSeq(m, ptr + 2 * SizeofU32 + name_size + 1,
                ptr + 2 * SizeofU32 + name_size + value_size)

\* iterator::operator*()
it_deref(m, ptr) == [name |-> it_name(m, ptr), value |-> it_value(m, ptr)]

\* operator++ stepping over the two lengths and the name only
it_incr_over_name(m, n, ptr) ==
  IF ptr < n
    THEN ptr + 2 * SizeofU32 + ReadU32(m, ptr)
    ELSE ptr

\* iterator::operator++()
it_incr(m, n, ptr) ==
  IF ptr < n
    THEN ptr + 2 * SizeofU32 + ReadU32(m, ptr) + ReadU32(m, ptr + SizeofU32)
    ELSE ptr

\* The entry at ptr, prefixes and bytes, lies inside the slice.
EntryInSlice(m, n, ptr) ==
  /\ ptr + 2 * SizeofU32 <= n
  /\ ptr + 2 * SizeofU32 + ReadU32(m, ptr) + ReadU32(m, ptr + SizeofU32) <= n

\* for (it = ptr; it != end(); ++it) collect *it
\* The loop is followed while it stays inside the slice; where it leaves the
\* slice (undefined behaviour) the collection stops: LoopLeavesSlice says so.
RECURSIVE Loop(_, _, _)
Loop(m, n, ptr) ==
  IF ptr = end(m, n) THEN << >>
  ELSE IF ~EntryInSlice(m, n, ptr) THEN << >>
  ELSE << it_deref(m, ptr) >> \o Loop(m, n, it_incr(m, n, ptr))

RECURSIVE LoopLeavesSlice(_, _, _)
LoopLeavesSlice(m, n, ptr) ==
  IF ptr = end(m, n) THEN FALSE
  ELSE IF ~EntryInSlice(m, n, ptr) THEN TRUE
  ELSE LoopLeavesSlice(m, n, it_incr(m, n, ptr))

\* for (auto it = begin(); it != end(); ++it)
Items(m, n) == Loop(m, n, begin(m, n))

(***************************************************************************)
(* Fields: an object of the heap h (a function from object names to        *)
(* records).  buffer_ and update_buffer_ are the two std::strings; data_   *)
(* is the inherited Slice, a pointer (the object and member whose bytes it *)
(* points at) and a size.                                                  *)
(***************************************************************************)
SliceAt(owner, member, n) == [ptr |-> << owner, member >>, size |-> n]

\* the memory a slice points at
Deref(h, s) == h[s.ptr[1]][s.ptr[2]]

\* a constructor that leaves the buffer without its header
Fields_without_header(self) ==
  [buffer_ |-> << >>, update_buffer_ |-> << >>, data_ |-> SliceAt(self, "buffer_", 0)]

\* Fields::Fields()
Fields(self) ==
  LET buffer == WriteU32(Resize(<< >>, SizeofU32), 0, 0)
  IN  [buffer_ |-> buffer, update_buffer_ |-> << >>,
       data_ |-> SliceAt(self, "buffer_", Len(buffer))]

\* append_field writing each length right before its bytes
append_field_interleaved(buffer, name, value) ==
  buffer \o EncodeU32(Len(name)) \o name \o EncodeU32(Len(value)) \o value

\* Fields::append_field(buffer, name, value)
append_field(buffer, name, value) ==
  LET name_size  == Len(name)
      value_size == Len(value)
      old_size   == Len(buffer)
      grown      == Resize(buffer, old_size + 2 * SizeofU32 + name_size + value_size)
  IN  Memcpy(grown, SubSeq(grown, 1, old_size) \o EncodeU32(name_size)
                      \o EncodeU32(value_size) \o SubSeq(name, 1, name_size)
                      \o SubSeq(value, 1, value_size))

\* push writing each length right before its bytes, the layout of
\* Serialization::SerializeRow
push_interleaved(h, self, name, value) ==
  LET counted == WriteU32(h[self].buffer_ \o EncodeU32(Len(name)) \o name
                            \o EncodeU32(Len(value)) \o value,
                          0, ReadU32(h[self].buffer_, 0) + 1)
  IN  [h EXCEPT ![self].buffer_ = counted,
                ![self].data_ = SliceAt(self, "buffer_", Len(counted))]

\* Fields::push(name, value) (and its aliases add)
push(h, self, name, value) ==
  LET name_size  == Len(name)
      value_size == Len(value)
      old_size   == Len(h[self].buffer_)
      grown      == Resize(h[self].buffer_,
                           old_size + 2 * SizeofU32 + name_size + value_size)
      written    == Memcpy(grown, SubSeq(grown, 1, old_size) \o EncodeU32(name_size)
                             \o EncodeU32(value_size) \o SubSeq(name, 1, name_size)
                             \o SubSeq(value, 1, value_size))
      counted    == WriteU32(written, 0, ReadU32(written, 0) + 1)
  IN  [h EXCEPT ![self].buffer_ = counted,
                ![self].data_ = SliceAt(self, "buffer_", Len(counted))]

\* clear that zeroes the header count and leaves the entries in the buffer
clear_keeps_entries(h, self) ==
  LET buffer == WriteU32(h[self].buffer_, 0, 0)
  IN  [h EXCEPT ![self].buffer_ = buffer,
                ![self].data_ = SliceAt(self, "buffer_", Len(buffer))]

\* clear that truncates the buffer and leaves the header count as it was
clear_keeps_count(h, self) ==
  LET buffer == Resize(h[self].buffer_, SizeofU32)
  IN  [h EXCEPT ![self].buffer_ = buffer,
                ![self].data_ = SliceAt(self, "buffer_", Len(buffer))]

\* Fields::clear()
clear(h, self) ==
  LET buffer == WriteU32(Resize(h[self].buffer_, SizeofU32), 0, 0)
  IN  [h EXCEPT ![self].buffer_ = buffer,
                ![self].data_ = SliceAt(self, "buffer_", Len(buffer))]

\* operator= copying the bytes and leaving data_ as it was
assign_keeps_view(h, self, m, n, same) ==
  IF same THEN h
  ELSE [h EXCEPT ![self].buffer_ = SubSeq(m, 1, n)]

\* Fields::operator=(const ReadonlyFields& other), other.data() = (m, n);
\* same: this == &other
assign(h, self, m, n, same) ==
  IF same THEN h
  ELSE [h EXCEPT ![self].buffer_ = SubSeq(m, 1, n),
                 ![self].data_ = SliceAt(self, "buffer_", n)]

\* step 2 counting every field of toupdate, appended or not
RECURSIVE update_loop_counts_all(_, _, _, _)
update_loop_counts_all(update_buffer, count, upd, cur) ==
  IF upd = << >> THEN [buffer |-> update_buffer, count |-> count]
  ELSE LET exists == \E j \in 1..Len(cur) : cur[j].name = Head(upd).name
       IN  IF ~exists
             THEN update_loop_counts_all(
                    append_field(update_buffer, Head(upd).name, Head(upd).value),
                    count + 1, Tail(upd), cur)
             ELSE update_loop_counts_all(update_buffer, count + 1, Tail(upd), cur)

\* step 2 without the test for an existing name: every field is appended
RECURSIVE update_loop_appends_all(_, _, _, _)
update_loop_appends_all(update_buffer, count, upd, cur) ==
  IF upd = << >> THEN [buffer |-> update_buffer, count |-> count]
  ELSE update_loop_appends_all(
         append_field(update_buffer, Head(upd).name, Head(upd).value),
         count + 1, Tail(upd), cur)

\* step 2 walking toupdate from its last field to its first
RECURSIVE update_loop_reversed(_, _, _, _)
update_loop_reversed(update_buffer, count, upd, cur) ==
  IF upd = << >> THEN [buffer |-> update_buffer, count |-> count]
  ELSE LET exists == \E j \in 1..Len(cur) : cur[j].name = Head(upd).name
           rest   == update_loop_reversed(update_buffer, count, Tail(upd), cur)
       IN  IF ~exists
             THEN [buffer |-> append_field(rest.buffer, Head(upd).name, Head(upd).value),
                   count |-> rest.count + 1]
             ELSE rest

\* Fields::update, step 2: the fields of toupdate (upd) that are appended
RECURSIVE update_loop(_, _, _, _)
update_loop(update_buffer, count, upd, cur) ==
  IF upd = << >> THEN [buffer |-> update_buffer, count |-> count]
  ELSE LET exists == \E j \in 1..Len(cur) : cur[j].name = Head(upd).name
       IN  IF ~exists
             THEN update_loop(append_field(update_buffer, Head(upd).name, Head(upd).value),
                              count + 1, Tail(upd), cur)
             ELSE update_loop(update_buffer, count, Tail(upd), cur)

\* update whose step 1 never shortens update_buffer_
update_keeps_scratch_length(h, self, m, n) ==
  LET this   == h[self]
      own    == Deref(h, this.data_)
      step1  == IF Len(this.update_buffer_) <= Len(this.buffer_)
                  THEN this.buffer_
                  ELSE Memcpy(this.update_buffer_, this.buffer_)
      count  == size(own, this.data_.size)
      step2  == update_loop(step1, count, Items(m, n), Items(own, this.data_.size))
      step3  == WriteU32(step2.buffer, 0, step2.count)
  IN  [h EXCEPT ![self].update_buffer_ = step3]

\* update that merges into buffer_ as well
update_in_place(h, self, m, n) ==
  LET this   == h[self]
      own    == Deref(h, this.data_)
      count  == size(own, this.data_.size)
      step2  == update_loop(this.buffer_, count, Items(m, n), Items(own, this.data_.size))
      step3  == WriteU32(step2.buffer, 0, step2.count)
  IN  [h EXCEPT ![self].update_buffer_ = step3, ![self].buffer_ = step3]

\* Fields::update(toupdate), toupdate.data() = (m, n): the heap after the call
update(h, self, m, n) ==
  LET this   == h[self]
      own    == Deref(h, this.data_)
      step1  == IF this.update_buffer_ = << >>
                  THEN this.buffer_
                  ELSE Memcpy(Resize(this.update_buffer_, Len(this.buffer_)), this.buffer_)
      count  == size(own, this.data_.size)
      step2  == update_loop(step1, count, Items(m, n), Items(own, this.data_.size))
      step3  == WriteU32(step2.buffer, 0, step2.count)
  IN  [h EXCEPT ![self].update_buffer_ = step3]

\* the Slice Fields::update returns
update_return(h, self) == SliceAt(self, "update_buffer_", Len(h[self].update_buffer_))

\* ReadonlyFields::filter, the loop: the fields of the view pushed into dest
RECURSIVE filter_loop(_, _, _, _)
filter_loop(h, dest, items, fields) ==
  IF items = << >> THEN h
  ELSE IF Head(items).name \in fields
    THEN filter_loop(push(h, dest, Head(items).name, Head(items).value),
                     dest, Tail(items), fields)
    ELSE filter_loop(h, dest, Tail(items), fields)

\* filter that appends to what dest holds
filter_without_clear(h, m, n, dest, fields) ==
  IF fields = {} THEN clear(h, dest)
  ELSE filter_loop(h, dest, Items(m, n), fields)

\* ReadonlyFields::filter(dest, fields) on the view (m, n)
filter(h, m, n, dest, fields) ==
  LET cleared == clear(h, dest)
  IN  IF fields = {} THEN cleared
      ELSE filter_loop(cleared, dest, Items(m, n), fields)

(***************************************************************************)
(* State.                                                                  *)
(***************************************************************************)
VARIABLES
  heap,      \* the Fields objects: object name -> [buffer_, update_buffer_, data_]
  result,    \* the Slice the last Fields::update returned (NoSlice before)
  op,        \* the operation that produced the state, with its arguments
  pushed,    \* per object: the fields pushed since its construction or its last clear
             \* (tracked), until it is assigned to or filtered into (not tracked)
  assigned,  \* the bytes last assigned into an object from an update's result
  dec,       \* a decoder at work on a byte buffer (SpecDecode)
  db         \* an adapter and the rows its storage engine holds (SpecDB)

vars == << heap, result, op, pushed, assigned, dec, db >>

\* no decoder at work
DecIdle == [pc |-> "idle"]

\* no adapter in use
DbIdle == [adapter |-> "none"]

ObjIds == {"b", "u"}

NoSlice == [ptr |-> << "null", "null" >>, size |-> 0]

\* the view an object exposes: the memory at data_.data() and data_.size()
ViewMem(h, o) == Deref(h, h[o].data_)
ViewSize(h, o) == h[o].data_.size

(***************************************************************************)
(* Spec: two Fields objects under push/add, clear, assignment from the     *)
(* other object's view, and filter.                                        *)
(***************************************************************************)
Init ==
  /\ heap = [o \in ObjIds |-> Fields(o)]
  /\ result = NoSlice
  /\ op = [name |-> "Fields"]
  /\ pushed = [o \in ObjIds |-> [tracked |-> TRUE, seq |-> << >>]]
  /\ assigned = << >>
  /\ dec = DecIdle
  /\ db = DbIdle

Push(o, name, value) ==
  /\ size(ViewMem(heap, o), ViewSize(heap, o)) < MaxFields
  /\ heap' = push(heap, o, name, value)
  /\ pushed' = IF pushed[o].tracked
                 THEN [pushed EXCEPT ![o].seq = Append(@, [name |-> name, value |-> value])]
                 ELSE pushed
  /\ op' = [name |-> "push", recv |-> o]
  /\ UNCHANGED << result, assigned, dec, db >>

Clear(o) ==
  /\ heap' = clear(heap, o)
  /\ pushed' = [pushed EXCEPT ![o] = [tracked |-> TRUE, seq |-> << >>]]
  /\ op' = [name |-> "clear", recv |-> o]
  /\ UNCHANGED << result, assigned, dec, db >>

\* o = p (p as a ReadonlyFields)
Assign(o, p) ==
  /\ heap' = assign(heap, o, ViewMem(heap, p), ViewSize(heap, p), o = p)
  /\ pushed' = IF o = p THEN pushed
               ELSE [pushed EXCEPT ![o] = [tracked |-> FALSE, seq |-> << >>]]
  /\ op' = [name |-> "operator=", recv |-> o, arg |-> p]
  /\ UNCHANGED << result, assigned, dec, db >>

\* p.filter(o, fields)
Filter(p, o, fields) ==
  /\ heap' = filter(heap, ViewMem(heap, p), ViewSize(heap, p), o, fields)
  /\ pushed' = [pushed EXCEPT ![o] = [tracked |-> FALSE, seq |-> << >>]]
  /\ op' = [name |-> "filter", recv |-> p, arg |-> o, fields |-> fields,
            dirty |-> ~empty(ViewMem(heap, o), ViewSize(heap, o))]
  /\ UNCHANGED << result, assigned, dec, db >>

Next ==
  \/ \E o \in ObjIds, e \in PushArgs : Push(o, e.name, e.value)
  \/ \E o \in ObjIds : Clear(o)
  \/ \E p \in ObjIds : Assign("b", p)
  \/ \E fields \in SUBSET FieldNames : Filter("u", "b", fields)

Spec == Init /\ [][Next]_vars

(***************************************************************************)
(* Properties of Spec.                                                     *)
(***************************************************************************)
DistinctNames(seq) ==
  \A i, j \in 1..Len(seq) : seq[i].name = seq[j].name => i = j

RECURSIVE EntryBytes(_)
EntryBytes(seq) ==
  IF seq = << >> THEN 0
  ELSE 2 * SizeofU32 + Len(Head(seq).name) + Len(Head(seq).value) + EntryBytes(Tail(seq))

\* the entries encoded after the header fill the buffer exactly, and the header
\* counts them
WellFormed(buffer) ==
  /\ Len(buffer) >= SizeofU32
  /\ ~LoopLeavesSlice(buffer, Len(buffer), SizeofU32)
  /\ LET entries == Loop(buffer, Len(buffer), SizeofU32)
     IN  /\ ReadU32(buffer, 0) = Len(entries)
         /\ Len(buffer) = SizeofU32 + EntryBytes(entries)

\* C3: the fields pushed into a freshly constructed (or cleared) Fields, with
\* pairwise distinct names, are what begin()..end() yields, in the order pushed,
\* and size() is their number.
C3_RoundTrip ==
  \A o \in ObjIds :
    (pushed[o].tracked /\ DistinctNames(pushed[o].seq)) =>
      /\ Items(ViewMem(heap, o), ViewSize(heap, o)) = pushed[o].seq
      /\ size(ViewMem(heap, o), ViewSize(heap, o)) = Len(pushed[o].seq)

\* two fields pushed, one with an empty name and one with an empty value
C3_Witness ==
  \E o \in ObjIds :
    /\ pushed[o].tracked /\ DistinctNames(pushed[o].seq)
    /\ Len(pushed[o].seq) >= 2
    /\ \E i \in 1..Len(pushed[o].seq) : pushed[o].seq[i].name = << >>
    /\ \E i \in 1..Len(pushed[o].seq) : pushed[o].seq[i].value = << >>
    /\ op.name = "push"

\* C5: after V.filter(D, W) with W not empty, D holds exactly the fields of V
\* whose names are in W, in V's order, whatever D held before.
C5_FilterCorrect ==
  (op.name = "filter" /\ op.fields # {}) =>
    LET Wanted(e) == e.name \in op.fields
        view == Items(ViewMem(heap, op.recv), ViewSize(heap, op.recv))
        dest == Items(ViewMem(heap, op.arg), ViewSize(heap, op.arg))
    IN  /\ dest = SelectSeq(view, Wanted)
        /\ size(ViewMem(heap, op.arg), ViewSize(heap, op.arg)) = Len(dest)
        /\ ~LoopLeavesSlice(ViewMem(heap, op.arg), ViewSize(heap, op.arg),
                            begin(ViewMem(heap, op.arg), ViewSize(heap, op.arg)))

\* a filter into a destination that held fields, that keeps a field, drops a
\* field, and asks for a name the view does not hold
C5_Witness ==
  /\ op.name = "filter" /\ op.fields # {} /\ op.dirty
  /\ LET view == Items(ViewMem(heap, op.recv), ViewSize(heap, op.recv))
         dest == Items(ViewMem(heap, op.arg), ViewSize(heap, op.arg))
     IN  /\ Len(dest) >= 1
         /\ Len(dest) < Len(view)
         /\ \E w \in op.fields : \A i \in 1..Len(view) : view[i].name # w

\* C8: the buffer of every Fields object is well formed: the header count is
\* the number of entries encoded after it, and the entries fill the buffer.
C8_OwnedBufferWellFormed ==
  \A o \in ObjIds : WellFormed(heap[o].buffer_)

\* a buffer of two entries or more that came from an assignment or a filter
\* into an object that held fields and was cleared before
C8_Witness ==
  /\ op.name \in {"operator=", "filter"}
  /\ ReadU32(heap["b"].buffer_, 0) >= 2
  /\ Len(heap["b"].buffer_) > SizeofU32 + 2 * 2 * SizeofU32

(***************************************************************************)
(* SpecMerge: Fields::update.  b.update(u) on every pair of records that   *)
(* pushes build; b = ReadonlyFields(the returned Slice); b.update(u) again. *)
(***************************************************************************)
EntrySeqs(k) == UNION { [1..n -> PushArgs] : n \in 0..k }

RECURSIVE PushAll(_, _, _)
PushAll(h, o, seq) ==
  IF seq = << >> THEN h
  ELSE PushAll(push(h, o, Head(seq).name, Head(seq).value), o, Tail(seq))

InitMerge ==
  \E sb, su \in EntrySeqs(MaxFields) :
    /\ heap = PushAll(PushAll([o \in ObjIds |-> Fields(o)], "b", sb), "u", su)
    /\ pushed = [o \in ObjIds |-> [tracked |-> TRUE, seq |-> IF o = "b" THEN sb ELSE su]]
    /\ result = NoSlice
    /\ op = [name |-> "Fields"]
    /\ assigned = << >>
    /\ dec = DecIdle
    /\ db = DbIdle

\* result = o.update(p)
Update(o, p) ==
  /\ heap' = update(heap, o, ViewMem(heap, p), ViewSize(heap, p))
  /\ result' = update_return(heap', o)
  /\ op' = [name |-> "update", recv |-> o, arg |-> p]
  /\ UNCHANGED << pushed, assigned, dec, db >>

\* o = ReadonlyFields(result)
AssignResult(o) ==
  /\ result # NoSlice
  /\ heap' = assign(heap, o, Deref(heap, result), result.size, FALSE)
  /\ assigned' = SubSeq(Deref(heap, result), 1, result.size)
  /\ pushed' = [pushed EXCEPT ![o] = [tracked |-> FALSE, seq |-> << >>]]
  /\ op' = [name |-> "operator=", recv |-> o, arg |-> "result"]
  /\ UNCHANGED << result, dec, db >>

NextMerge ==
  \/ Update("b", "u")
  \/ AssignResult("b")

SpecMerge == InitMerge /\ [][NextMerge]_vars

\* in a state that an update produced: the receiver's fields, the argument's
\* fields and the fields of the returned record
Base == Items(ViewMem(heap, op.recv), ViewSize(heap, op.recv))
Upd == Items(ViewMem(heap, op.arg), ViewSize(heap, op.arg))
Merged == Items(Deref(heap, result), result.size)

HasName(seq, name) == \E i \in 1..Len(seq) : seq[i].name = name

\* the value of the first field called name
Get(seq, name) ==
  seq[CHOOSE i \in 1..Len(seq) :
        seq[i].name = name /\ \A j \in 1..(i - 1) : seq[j].name # name].value

\* C1: for every name in both B and U, the record B.update(U) returns holds
\* U's value for that name.
C1_OverwriteOnMerge ==
  op.name = "update" =>
    \A i \in 1..Len(Upd) :
      HasName(Base, Upd[i].name) =>
        /\ HasName(Merged, Upd[i].name)
        /\ \E k \in 1..Len(Upd) :
             Upd[k].name = Upd[i].name /\ Upd[k].value = Get(Merged, Upd[i].name)

\* C2 as claimed: the header count of B.update(U) is |B| plus the number of
\* distinct names of U that B does not hold, and is the number of entries encoded.
C2_MergeCountDistinctNames ==
  op.name = "update" =>
    /\ size(Deref(heap, result), result.size)
         = Len(Base) + Cardinality({ Upd[i].name : i \in 1..Len(Upd) }
                                     \ { Base[j].name : j \in 1..Len(Base) })
    /\ size(Deref(heap, result), result.size) = Len(Merged)

\* C2 as amended: the header count of B.update(U) is |B| plus the number of
\* entries of U whose name B does not hold (a name that U repeats counts once
\* per entry), and is the number of entries encoded in the returned bytes.
C2_MergeCount ==
  op.name = "update" =>
    LET NotInBase(e) == ~HasName(Base, e.name)
    IN  /\ size(Deref(heap, result), result.size)
             = Len(Base) + Len(SelectSeq(Upd, NotInBase))
        /\ size(Deref(heap, result), result.size) = Len(Merged)
        /\ WellFormed(SubSeq(Deref(heap, result), 1, result.size))

\* an update with a name B holds and a name B does not hold
C2_Witness ==
  /\ op.name = "update"
  /\ Len(Base) >= 1
  /\ \E i \in 1..Len(Upd) : HasName(Base, Upd[i].name)
  /\ \E i \in 1..Len(Upd) : ~HasName(Base, Upd[i].name)

\* C4: with M assigned from the record B.update(U) returned, M.update(U)
\* returns the same bytes.
C4_IdempotentMerge ==
  (op.name = "update" /\ assigned # << >>) =>
    SubSeq(Deref(heap, result), 1, result.size) = assigned

\* the second update, where U names a field of B with another value and a field
\* B did not hold
C4_Witness ==
  /\ op.name = "update" /\ assigned # << >>
  /\ Len(Merged) > Len(pushed["u"].seq)
  /\ \E i \in 1..Len(Upd) : Get(Merged, Upd[i].name) # Upd[i].value
  /\ \E i \in 1..Len(Upd) : Get(Merged, Upd[i].name) = Upd[i].value

(***************************************************************************)
(* SpecDecode: a decoder run on a buffer that may be cut short.  The       *)
(* buffer is a prefix of an encoding; the memory behind it (TailLen bytes  *)
(* of some other object, then unmapped memory) is not the decoder's to     *)
(* read.  A read of it is undefined behaviour: it is recorded (oob), and   *)
(* it yields the bytes that happen to be there, or faults (segv) where the *)
(* memory ends.  NDEBUG (asserts compiled out) is a choice of the build.   *)
(***************************************************************************)
\* bytes of foreign memory behind a buffer
TailLen == 12
\* the byte values the foreign memory may hold
GarbageBytes == {0, 1}

\* Serialization::SerializeRowImpl, the loop over the fields
RECURSIVE SerializeFields(_)
SerializeFields(values) ==
  IF values = << >> THEN << >>
  ELSE EncodeU32(Len(Head(values).name)) \o Head(values).name
         \o EncodeU32(Len(Head(values).value)) \o Head(values).value
         \o SerializeFields(Tail(values))

\* SerializeRowImpl writing the number of bytes where the field count belongs
SerializeRowImpl_counts_bytes(values) ==
  EncodeU32(Len(SerializeFields(values))) \o SerializeFields(values)

\* Serialization::SerializeRowImpl: data_buffer_ after the call
SerializeRowImpl(values) == EncodeU32(Len(values)) \o SerializeFields(values)

\* the record Fields::push builds from the fields of seq
PushedBuffer(seq) == PushAll([o \in {"b"} |-> Fields(o)], "b", seq)["b"].buffer_

\* k bytes at offset off are mapped memory
CanRead(mem, off, k) == off + k <= Len(mem)

InitDecode ==
  \E prog \in {"iterate", "DeserializeRow"}, seq \in EntrySeqs(MaxFields),
     g \in GarbageBytes :
    \E ndebug \in (IF prog = "iterate" THEN {FALSE} ELSE BOOLEAN) :
      LET encoded == IF prog = "iterate" THEN PushedBuffer(seq) ELSE SerializeRowImpl(seq)
      IN  \E k \in 0..Len(encoded) :
            /\ dec = [prog |-> prog, pc |-> "start", ndebug |-> ndebug,
                      mem |-> SubSeq(encoded, 1, k) \o [i \in 1..TailLen |-> g],
                      len |-> k, ptr |-> 0, i |-> 0, field_count |-> 0,
                      out |-> << >>, oob |-> FALSE, status |-> "running"]
            /\ heap = [o \in ObjIds |-> Fields(o)]
            /\ result = NoSlice
            /\ op = [name |-> "Fields"]
            /\ pushed = [o \in ObjIds |-> [tracked |-> TRUE, seq |-> << >>]]
            /\ assigned = << >>
            /\ db = DbIdle

Fault(d) == [d EXCEPT !.status = "segv", !.pc = "done", !.oob = TRUE]

\* ReadonlyFields: for (auto it = begin(); it != end(); ++it) { auto [name, value] = *it; }
IterBegin ==
  /\ dec.prog = "iterate" /\ dec.pc = "start"
  /\ dec' = [dec EXCEPT !.ptr = begin(dec.mem, dec.len), !.pc = "test"]
  /\ UNCHANGED << heap, result, op, pushed, assigned, db >>

\* it != end()
IterTest ==
  /\ dec.prog = "iterate" /\ dec.pc = "test"
  /\ dec' = IF dec.ptr # end(dec.mem, dec.len)
              THEN [dec EXCEPT !.pc = "body"]
              ELSE [dec EXCEPT !.pc = "done", !.status = "returned"]
  /\ UNCHANGED << heap, result, op, pushed, assigned, db >>

\* *it: the two length prefixes at ptr_ are read
IterDeref ==
  /\ dec.prog = "iterate" /\ dec.pc = "body"
  /\ dec' = IF ~CanRead(dec.mem, dec.ptr, 2 * SizeofU32) THEN Fault(dec)
            ELSE [dec EXCEPT
                    !.oob = @ \/ dec.ptr + 2 * SizeofU32 > dec.len,
                    !.out = IF EntryInSlice(dec.mem, dec.len, dec.ptr)
                              THEN Append(@, it_deref(dec.mem, dec.ptr)) ELSE @,
                    !.pc = "incr"]
  /\ UNCHANGED << heap, result, op, pushed, assigned, db >>

\* ++it
IterIncr ==
  /\ dec.prog = "iterate" /\ dec.pc = "incr"
  /\ dec' = IF dec.ptr < dec.len /\ ~CanRead(dec.mem, dec.ptr, 2 * SizeofU32)
              THEN Fault(dec)
              ELSE [dec EXCEPT
                      !.oob = @ \/ (dec.ptr < dec.len /\ dec.ptr + 2 * SizeofU32 > dec.len),
                      !.ptr = it_incr(dec.mem, dec.len, dec.ptr),
                      !.pc = "test"]
  /\ UNCHANGED << heap, result, op, pushed, assigned, db >>

\* Serialization::DeserializeRowImpl up to its loop: values.clear(), the
\* assert on the header and the read of field_count
DeserStart ==
  /\ dec.prog = "DeserializeRow" /\ dec.pc = "start"
  /\ dec' = IF dec.len < SizeofU32 /\ ~dec.ndebug
              THEN [dec EXCEPT !.status = "aborted", !.pc = "done"]
            ELSE IF ~CanRead(dec.mem, 0, SizeofU32) THEN Fault(dec)
            ELSE [dec EXCEPT !.field_count = ReadU32(dec.mem, 0),
                             !.oob = @ \/ dec.len < SizeofU32,
                             !.ptr = SizeofU32, !.i = 0, !.out = << >>,
                             !.pc = "loop"]
  /\ UNCHANGED << heap, result, op, pushed, assigned, db >>

\* one round of the loop of DeserializeRowImpl: assert(p < lim), the name, the value
DeserField ==
  /\ dec.prog = "DeserializeRow" /\ dec.pc = "loop"
  /\ dec.i < dec.field_count
  /\ dec' =
       IF ~dec.ndebug /\ ~(dec.ptr < dec.len)
         THEN [dec EXCEPT !.status = "aborted", !.pc = "done"]
       ELSE IF ~CanRead(dec.mem, dec.ptr, SizeofU32) THEN Fault(dec)
       ELSE LET name_len == ReadU32(dec.mem, dec.ptr)
                name_at  == dec.ptr + SizeofU32
            IN  IF ~CanRead(dec.mem, name_at, name_len + SizeofU32) THEN Fault(dec)
                ELSE LET value_len == ReadU32(dec.mem, name_at + name_len)
                         value_at  == name_at + name_len + SizeofU32
                     IN  IF ~CanRead(dec.mem, value_at, value_len) THEN Fault(dec)
                         ELSE [dec EXCEPT
                                 !.out = Append(@,
                                   [name  |-> SubSeq(dec.mem, name_at + 1, name_at + name_len),
                                    value |-> SubSeq(dec.mem, value_at + 1, value_at + value_len)]),
                                 !.oob = @ \/ value_at + value_len > dec.len,
                                 !.ptr = value_at + value_len,
                                 !.i = @ + 1]
  /\ UNCHANGED << heap, result, op, pushed, assigned, db >>

\* the loop of DeserializeRowImpl is over (expected_field_count is 0): return
DeserEnd ==
  /\ dec.prog = "DeserializeRow" /\ dec.pc = "loop"
  /\ ~(dec.i < dec.field_count)
  /\ dec' = [dec EXCEPT !.status = "returned", !.pc = "done"]
  /\ UNCHANGED << heap, result, op, pushed, assigned, db >>

NextDecode ==
  \/ IterBegin
  \/ IterTest
  \/ IterDeref
  \/ IterIncr
  \/ DeserStart
  \/ DeserField
  \/ DeserEnd

SpecDecode == InitDecode /\ [][NextDecode]_vars

\* the complete entries a buffer holds after its header, in the layout of
\* Serialization
RECURSIVE SerializedEntries(_, _, _)
SerializedEntries(m, n, p) ==
  IF p + SizeofU32 > n THEN 0
  ELSE LET name_len == ReadU32(m, p)
       IN  IF p + SizeofU32 + name_len + SizeofU32 > n THEN 0
           ELSE LET value_len == ReadU32(m, p + SizeofU32 + name_len)
                    next == p + 2 * SizeofU32 + name_len + value_len
                IN  IF next > n THEN 0 ELSE 1 + SerializedEntries(m, n, next)

CompleteEntries ==
  IF dec.prog = "iterate" THEN Len(Loop(dec.mem, dec.len, SizeofU32))
  ELSE SerializedEntries(dec.mem, dec.len, SizeofU32)

\* the header declares 2 fields and the bytes hold 1 complete entry
DeclaresTwoHoldsOne ==
  /\ dec.pc # "idle"
  /\ dec.len >= SizeofU32
  /\ ReadU32(dec.mem, 0) = 2
  /\ CompleteEntries = 1

\* C6: on a buffer that declares 2 fields and holds 1 complete entry, the
\* decoder neither reads past the buffer nor returns to its caller as if the
\* record were valid.
C6_CorruptInputRejected ==
  DeclaresTwoHoldsOne => (~dec.oob /\ dec.status # "returned")

\* an entry whose length prefixes lie in the buffer and whose bytes do not
RECURSIVE LastEntryOverruns(_, _, _)
LastEntryOverruns(m, n, ptr) ==
  IF ptr >= n \/ ptr + 2 * SizeofU32 > n THEN FALSE
  ELSE IF ~EntryInSlice(m, n, ptr) THEN TRUE
  ELSE LastEntryOverruns(m, n, it_incr(m, n, ptr))

\* C7: the loop over a ReadonlyFields on a buffer whose last entry overruns
\* the buffer reads no byte at or beyond the buffer's end.
C7_BoundedIteration ==
  (dec.pc # "idle" /\ dec.prog = "iterate"
     /\ LastEntryOverruns(dec.mem, dec.len, begin(dec.mem, dec.len))) => ~dec.oob


(***************************************************************************)
(* SpecDB: the LMDB and the Leaves adapters of the DB interface.  An       *)
(* adapter holds its rows in a storage engine, a map from key bytes to     *)
(* value bytes; each operation below is the whole call, transaction        *)
(* included.  The engines' own failures (a transaction that cannot begin,  *)
(* a full map) are left out.                                               *)
(***************************************************************************)
\* the fields a client writes
DbArgs == { e \in PushArgs : e.name # << >> }

Rows(k) == UNION { [1..n -> DbArgs] : n \in 1..k }

Table == << "usertable" >>

Keys == { << "user1" >> }

\* no row stored
NoRows == [k \in {} |-> << >>]

\* mdb_put with flags 0, cursor.value(slice) at a found or new key
Put(rows, key, val) ==
  [k \in (DOMAIN rows) \cup {key} |-> IF k = key THEN val ELSE rows[k]]

\* a Fields filled by the client, as the workload does before Insert and Update
ClientFields(seq) == PushAll([o \in {"values"} |-> Fields(o)], "values", seq)

\* LmdbDB::Insert(table, key, values)
LmdbDB_Insert(rows, key, hv) ==
  LET data == hv["values"].buffer_
  IN  [status |-> "kOK", rows |-> Put(rows, key, data)]

\* LmdbDB::Update(table, key, values)
LmdbDB_Update(rows, key, hv) ==
  IF key \notin DOMAIN rows
    THEN [status |-> "exception", rows |-> rows]
    ELSE LET val_slice      == rows[key]
             current_values == assign([o \in {"current_values"} |-> Fields(o)],
                                      "current_values", val_slice, Len(val_slice), FALSE)
             updated        == update(current_values, "current_values",
                                      Deref(hv, hv["values"].data_), hv["values"].data_.size)
             updated_data   == update_return(updated, "current_values")
         IN  [status |-> "kOK",
              rows |-> Put(rows, key,
                           SubSeq(Deref(updated, updated_data), 1, updated_data.size))]

\* LmdbDB::Read(table, key, NULL, result): the status and the fields of result
LmdbDB_Read(rows, key) ==
  IF key \notin DOMAIN rows
    THEN [status |-> "kNotFound", fields |-> << >>]
    ELSE LET val_slice == rows[key]
             result_   == assign([o \in {"result"} |-> Fields(o)],
                                 "result", val_slice, Len(val_slice), FALSE)
         IN  [status |-> "kOK",
              fields |-> Items(Deref(result_, result_["result"].data_),
                               result_["result"].data_.size)]

\* LeavesDB::SerializeRow(values, data)
RECURSIVE LeavesDB_SerializeRow(_)
LeavesDB_SerializeRow(values) ==
  IF values = << >> THEN << >>
  ELSE EncodeU32(Len(Head(values).name)) \o Head(values).name
         \o EncodeU32(Len(Head(values).value)) \o Head(values).value
         \o LeavesDB_SerializeRow(Tail(values))

\* LeavesDB::DeserializeRow(values, p, lim) on data this adapter serialized
RECURSIVE LeavesDB_DeserializeRow(_, _, _)
LeavesDB_DeserializeRow(data, p, lim) ==
  IF p >= lim THEN << >>
  ELSE LET name_len  == ReadU32(data, p)
           name_at   == p + SizeofU32
           value_len == ReadU32(data, name_at + name_len)
           value_at  == name_at + name_len + SizeofU32
       IN  << [name  |-> SubSeq(data, name_at + 1, name_at + name_len),
               value |-> SubSeq(data, value_at + 1, value_at + value_len)] >>
             \o LeavesDB_DeserializeRow(data, value_at + value_len, lim)

\* table + ":" + key
full_key(table, key) == table \o << ":" >> \o key

\* LeavesDB::Insert(table, key, values)
LeavesDB_Insert(rows, table, key, values) ==
  [status |-> "kOK",
   rows |-> Put(rows, full_key(table, key), LeavesDB_SerializeRow(values))]

\* LeavesDB::Update(table, key, values)
LeavesDB_Update(rows, table, key, values) ==
  IF full_key(table, key) \notin DOMAIN rows
    THEN [status |-> "kNotFound", rows |-> rows]
    ELSE [status |-> "kOK",
          rows |-> Put(rows, full_key(table, key), LeavesDB_SerializeRow(values))]

\* LeavesDB::Read(table, key, NULL, result): the cursor looks for key itself
LeavesDB_Read(rows, table, key) ==
  IF key \notin DOMAIN rows
    THEN [status |-> "kNotFound", fields |-> << >>]
    ELSE [status |-> "kOK",
          fields |-> LeavesDB_DeserializeRow(rows[key], 0, Len(rows[key]))]

\* the fields of the row an adapter stores for (table, key), << >> if none
StoredRow(d, table, key) ==
  IF d.adapter = "lmdb"
    THEN IF key \in DOMAIN d.rows
           THEN Items(d.rows[key], Len(d.rows[key])) ELSE << >>
    ELSE IF full_key(table, key) \in DOMAIN d.rows
           THEN LET data == d.rows[full_key(table, key)]
                IN  LeavesDB_DeserializeRow(data, 0, Len(data))
           ELSE << >>

\* Read(table, key, NULL) of the adapter in use
ReadAll(d, table, key) ==
  IF d.adapter = "lmdb" THEN LmdbDB_Read(d.rows, key)
  ELSE LeavesDB_Read(d.rows, table, key)

InitDB ==
  /\ \E a \in {"lmdb", "leaves"} :
       db = [adapter |-> a, rows |-> NoRows]
  /\ heap = [o \in ObjIds |-> Fields(o)]
  /\ pushed = [o \in ObjIds |-> [tracked |-> TRUE, seq |-> << >>]]
  /\ result = NoSlice
  /\ op = [name |-> "Init"]
  /\ assigned = << >>
  /\ dec = DecIdle

DbDone(name, key, values, before, r) ==
  /\ db' = [db EXCEPT !.rows = r.rows]
  /\ op' = [name |-> name, key |-> key, values |-> values, before |-> before,
            status |-> r.status]
  /\ UNCHANGED << heap, result, pushed, assigned, dec >>

LmdbInsert(key, values) ==
  /\ db.adapter = "lmdb"
  /\ DbDone("Insert", key, values, StoredRow(db, Table, key),
            LmdbDB_Insert(db.rows, key, ClientFields(values)))

LmdbUpdate(key, values) ==
  /\ db.adapter = "lmdb"
  /\ DbDone("Update", key, values, StoredRow(db, Table, key),
            LmdbDB_Update(db.rows, key, ClientFields(values)))

LmdbRead(key) ==
  /\ db.adapter = "lmdb"
  /\ op' = [name |-> "Read", key |-> key] @@ LmdbDB_Read(db.rows, key)
  /\ UNCHANGED << heap, result, pushed, assigned, dec, db >>

LeavesInsert(key, values) ==
  /\ db.adapter = "leaves"
  /\ DbDone("Insert", key, values, StoredRow(db, Table, key),
            LeavesDB_Insert(db.rows, Table, key, values))

LeavesUpdate(key, values) ==
  /\ db.adapter = "leaves"
  /\ DbDone("Update", key, values, StoredRow(db, Table, key),
            LeavesDB_Update(db.rows, Table, key, values))

LeavesRead(key) ==
  /\ db.adapter = "leaves"
  /\ op' = [name |-> "Read", key |-> key] @@ LeavesDB_Read(db.rows, Table, key)
  /\ UNCHANGED << heap, result, pushed, assigned, dec, db >>

NextDB ==
  \/ \E key \in Keys, values \in Rows(MaxFields) : LmdbInsert(key, values)
  \/ \E key \in Keys, values \in Rows(MaxFields) : LmdbUpdate(key, values)
  \/ \E key \in Keys : LmdbRead(key)
  \/ \E key \in Keys, values \in Rows(MaxFields) : LeavesInsert(key, values)
  \/ \E key \in Keys, values \in Rows(MaxFields) : LeavesUpdate(key, values)
  \/ \E key \in Keys : LeavesRead(key)

SpecDB == InitDB /\ [][NextDB]_vars

\* the fields of seq whose name no field of upd bears
NotNamedIn(seq, upd) == SelectSeq(seq, LAMBDA f : ~HasName(upd, f.name))

\* sub occurs in seq, in order
RECURSIVE IsSubsequence(_, _)
IsSubsequence(sub, seq) ==
  IF sub = << >> THEN TRUE
  ELSE IF seq = << >> THEN FALSE
  ELSE IF Head(sub) = Head(seq) THEN IsSubsequence(Tail(sub), Tail(seq))
  ELSE IsSubsequence(sub, Tail(seq))

\* C9: once Update(table, key, U) has returned kOK on a stored row,
\* Read(table, key, NULL) returns kOK and, for every field name of U, a field
\* of that name with the value U gives it.
C9_UpdateOverwrites ==
  (op.name = "Update" /\ op.status = "kOK") =>
    LET r == ReadAll(db, Table, op.key)
    IN  /\ r.status = "kOK"
        /\ \A i \in 1..Len(op.values) :
             /\ HasName(r.fields, op.values[i].name)
             /\ \E k \in 1..Len(op.values) :
                  /\ op.values[k].name = op.values[i].name
                  /\ op.values[k].value = Get(r.fields, op.values[i].name)

\* C10: once Update(table, key, U) has returned kOK on a stored row B, the
\* stored row holds every field of B that U does not name, with its value
\* and in B's order.
C10_UpdatePreservesUntouched ==
  (op.name = "Update" /\ op.status = "kOK") =>
    IsSubsequence(NotNamedIn(op.before, op.values), StoredRow(db, Table, op.key))

\* C11: once Insert(table, key, V) has returned kOK, Read(table, key, NULL)
\* with the same table and key returns kOK and exactly the fields of V in order.
C11_ReadAfterInsert ==
  (op.name = "Insert" /\ op.status = "kOK") =>
    LET r == ReadAll(db, Table, op.key)
    IN  /\ r.status = "kOK"
        /\ r.fields = op.values

(***************************************************************************)
(* SpecReuse: clear and reuse.  b and u are built by the same pushes; b is *)
(* then cleared and pushed into, u is left as the record of what b held.   *)
(* pushed["b"] is tracked from b's first clear on.                         *)
(***************************************************************************)
InitReuse ==
  \E sb \in EntrySeqs(MaxFields) :
    /\ heap = PushAll(PushAll([o \in ObjIds |-> Fields(o)], "b", sb), "u", sb)
    /\ pushed = [o \in ObjIds |-> [tracked |-> FALSE, seq |-> << >>]]
    /\ result = NoSlice
    /\ op = [name |-> "Fields"]
    /\ assigned = << >>
    /\ dec = DecIdle
    /\ db = DbIdle

NextReuse ==
  \/ Clear("b")
  \/ \E e \in PushArgs : Push("b", e.name, e.value)

SpecReuse == InitReuse /\ [][NextReuse]_vars

\* C12: right after clear() the buffer is the 4-byte empty record (size() is 0,
\* empty() holds, begin() is end()); and a Fields that was cleared and then
\* had k fields pushed holds exactly those k fields.
C12_ClearAndReuse ==
  /\ op.name = "clear" =>
       LET m == ViewMem(heap, op.recv)
           n == ViewSize(heap, op.recv)
       IN  /\ heap[op.recv].buffer_ = EncodeU32(0)
           /\ m = heap[op.recv].buffer_ /\ n = SizeofU32
           /\ size(m, n) = 0 /\ empty(m, n) /\ begin(m, n) = end(m, n)
  /\ pushed["b"].tracked =>
       LET m == ViewMem(heap, "b")
           n == ViewSize(heap, "b")
       IN  /\ Items(m, n) = pushed["b"].seq
           /\ size(m, n) = Len(pushed["b"].seq)
           /\ ~LoopLeavesSlice(m, n, begin(m, n))

\* b held two fields, was cleared, and one field was pushed since
C12_Witness ==
  /\ pushed["b"].tracked
  /\ Len(Items(ViewMem(heap, "u"), ViewSize(heap, "u"))) = 2
  /\ Len(pushed["b"].seq) = 1
  /\ op.name = "push"

(***************************************************************************)
(* More properties of Spec.                                                *)
(***************************************************************************)
\* C13: a freshly constructed Fields holds exactly the 4 bytes of count 0,
\* and every view over that encoding has size() 0, begin() equal to end() and
\* an iteration without entries.
C13_EmptyRecord ==
  /\ op.name = "Fields" =>
       \A o \in ObjIds :
         /\ heap[o].buffer_ = EncodeU32(0)
         /\ Len(heap[o].buffer_) = SizeofU32
         /\ heap[o].data_ = SliceAt(o, "buffer_", SizeofU32)
  /\ \A o \in ObjIds :
       LET m == ViewMem(heap, o)
           n == ViewSize(heap, o)
       IN  SubSeq(m, 1, n) = Fields(o).buffer_ =>
             /\ n = SizeofU32
             /\ size(m, n) = 0 /\ empty(m, n)
             /\ begin(m, n) = end(m, n)
             /\ Items(m, n) = << >>

\* b assigned from the view of u, which is as constructed
C13_Witness ==
  /\ op.name = "operator=" /\ op.recv = "b" /\ op.arg = "u"
  /\ heap["u"] = Fields("u")
  /\ heap["b"].buffer_ = EncodeU32(0)
  /\ pushed["u"].tracked /\ pushed["u"].seq = << >>

(***************************************************************************)
(* SpecSelect: the paths that read a row through a selection of names.  u  *)
(* holds the row (the values a client wrote), b is the result the caller   *)
(* passes.  A selection is NULL or a set of names (sel.null, sel.names).   *)
(***************************************************************************)
Selections ==
  { [null |-> TRUE, names |-> {}] }
    \cup { [null |-> FALSE, names |-> W] : W \in SUBSET { e.name : e \in DbArgs } }

\* the orders in which an unordered_set may hand out its elements
Orders(W) ==
  { s \in [1..Cardinality(W) -> W] : \A i, j \in 1..Cardinality(W) : s[i] = s[j] => i = j }

\* as_record_set_str(rec, name, value): the bin called name is set, or added
as_record_set_str(rec, name, value) ==
  IF \E i \in 1..Len(rec) : rec[i].name = name
    THEN [i \in 1..Len(rec) |->
            IF rec[i].name = name THEN [name |-> name, value |-> value] ELSE rec[i]]
    ELSE Append(rec, [name |-> name, value |-> value])

\* AerospikeDB::SetRecord(rec, values)
RECURSIVE AerospikeDB_SetRecord(_, _)
AerospikeDB_SetRecord(rec, items) ==
  IF items = << >> THEN rec
  ELSE AerospikeDB_SetRecord(as_record_set_str(rec, Head(items).name, Head(items).value),
                             Tail(items))

\* AerospikeDB::GetRecord, the loop over the wanted names (in the order the
\* set hands them out)
RECURSIVE GetRecord_wanted(_, _, _, _)
GetRecord_wanted(h, rec, result_, order) ==
  IF order = << >> THEN h
  ELSE IF HasName(rec, Head(order))
    THEN GetRecord_wanted(push(h, result_, Head(order), Get(rec, Head(order))),
                          rec, result_, Tail(order))
    ELSE GetRecord_wanted(h, rec, result_, Tail(order))

\* AerospikeDB::GetRecord(rec, result, fields)
AerospikeDB_GetRecord(h, rec, result_, sel, order) ==
  IF ~sel.null /\ sel.names # {}
    THEN GetRecord_wanted(h, rec, result_, order)
    ELSE PushAll(h, result_, rec)

\* LeavesDB::DeserializeRowFilter(values, data, fields)
LeavesDB_DeserializeRowFilter(data, fields) ==
  SelectSeq(LeavesDB_DeserializeRow(data, 0, Len(data)), LAMBDA f : f.name \in fields)

InitSelect ==
  \E row \in Rows(MaxFields) :
    /\ heap = PushAll([o \in ObjIds |-> Fields(o)], "u", row)
    /\ pushed = [o \in ObjIds |-> [tracked |-> FALSE, seq |-> << >>]]
    /\ result = NoSlice
    /\ op = [name |-> "Insert"]
    /\ assigned = << >>
    /\ dec = DecIdle
    /\ db = DbIdle

\* AerospikeDB::Read, sync mode, on the record the row was put as
GetRecord(sel) ==
  /\ size(ViewMem(heap, "b"), ViewSize(heap, "b")) < MaxFields
  /\ \E order \in Orders(sel.names) :
       heap' = AerospikeDB_GetRecord(
                 heap, AerospikeDB_SetRecord(<< >>, Items(ViewMem(heap, "u"), ViewSize(heap, "u"))),
                 "b", sel, order)
  /\ op' = [name |-> "GetRecord", sel |-> sel,
            before |-> Items(ViewMem(heap, "b"), ViewSize(heap, "b")),
            out |-> Items(ViewMem(heap', "b"), ViewSize(heap', "b"))]
  /\ UNCHANGED << result, pushed, assigned, dec, db >>

\* LmdbDB::Read with a field set: readonly.filter(result, *fields)
ReadFilter(names) ==
  /\ heap' = filter(heap, ViewMem(heap, "u"), ViewSize(heap, "u"), "b", names)
  /\ op' = [name |-> "filter", sel |-> [null |-> FALSE, names |-> names],
            before |-> Items(ViewMem(heap, "b"), ViewSize(heap, "b")),
            out |-> Items(ViewMem(heap', "b"), ViewSize(heap', "b"))]
  /\ UNCHANGED << result, pushed, assigned, dec, db >>

\* LeavesDB::Read and Scan with a field list, on the row as Leaves stores it
DeserializeRowFilter(names) ==
  /\ op' = [name |-> "DeserializeRowFilter", sel |-> [null |-> FALSE, names |-> names],
            before |-> << >>,
            out |-> LeavesDB_DeserializeRowFilter(
                      LeavesDB_SerializeRow(Items(ViewMem(heap, "u"), ViewSize(heap, "u"))),
                      names)]
  /\ UNCHANGED << heap, result, pushed, assigned, dec, db >>

NextSelect ==
  \/ \E sel \in Selections : GetRecord(sel)
  \/ \E sel \in Selections : ~sel.null /\ ReadFilter(sel.names)
  \/ \E sel \in Selections : ~sel.null /\ DeserializeRowFilter(sel.names)

SpecSelect == InitSelect /\ [][NextSelect]_vars

\* C14: a read through a selection that is not NULL and holds no name yields
\* no field: an empty record from filter and DeserializeRowFilter, nothing
\* added to result by GetRecord.
C14_EmptySelection ==
  (op.name \in {"GetRecord", "filter", "DeserializeRowFilter"}
     /\ ~op.sel.null /\ op.sel.names = {}) =>
    IF op.name = "GetRecord" THEN op.out = op.before ELSE op.out = << >>

(***************************************************************************)
(* SpecWire: each encoder of the repository writes a record, each decoder  *)
(* reads it.  The decoders are the step actions of SpecDecode; dec also    *)
(* keeps the fields that were encoded (seq) and the encoder.               *)
(***************************************************************************)
Encoders == {"push", "append_field", "SerializeRow"}

\* the record Fields::update builds with append_field from the fields of seq:
\* Fields().update(u), u holding seq
AppendedBuffer(seq) ==
  LET h == PushAll([o \in ObjIds |-> Fields(o)], "u", seq)
  IN  update(h, "b", ViewMem(h, "u"), ViewSize(h, "u"))["b"].update_buffer_

Encode(encoder, seq) ==
  IF encoder = "push" THEN PushedBuffer(seq)
  ELSE IF encoder = "append_field" THEN AppendedBuffer(seq)
  ELSE SerializeRowImpl(seq)

InitWire ==
  \E encoder \in Encoders, prog \in {"iterate", "DeserializeRow"},
     seq \in EntrySeqs(MaxFields), g \in GarbageBytes, ndebug \in BOOLEAN :
    LET encoded == Encode(encoder, seq)
    IN  /\ dec = [prog |-> prog, pc |-> "start", ndebug |-> ndebug,
                  mem |-> encoded \o [i \in 1..TailLen |-> g],
                  len |-> Len(encoded), ptr |-> 0, i |-> 0, field_count |-> 0,
                  out |-> << >>, oob |-> FALSE, status |-> "running",
                  encoder |-> encoder, seq |-> seq]
        /\ heap = [o \in ObjIds |-> Fields(o)]
        /\ result = NoSlice
        /\ op = [name |-> "Fields"]
        /\ pushed = [o \in ObjIds |-> [tracked |-> TRUE, seq |-> << >>]]
        /\ assigned = << >>
        /\ db = DbIdle

SpecWire == InitWire /\ [][NextDecode]_vars

\* an entry as the record encoding is described: length, name, length, value
RECURSIVE InterleavedEntries(_)
InterleavedEntries(seq) ==
  IF seq = << >> THEN << >>
  ELSE EncodeU32(Len(Head(seq).name)) \o Head(seq).name
         \o EncodeU32(Len(Head(seq).value)) \o Head(seq).value
         \o InterleavedEntries(Tail(seq))

\* an entry with both lengths first: name length, value length, name, value
RECURSIVE LengthsFirstEntries(_)
LengthsFirstEntries(seq) ==
  IF seq = << >> THEN << >>
  ELSE EncodeU32(Len(Head(seq).name)) \o EncodeU32(Len(Head(seq).value))
         \o Head(seq).name \o Head(seq).value
         \o LengthsFirstEntries(Tail(seq))

Encoded == SubSeq(dec.mem, 1, dec.len)

\* the decoder is the one of the encoder's codec
SameCodec ==
  (dec.prog = "iterate") = (dec.encoder \in {"push", "append_field"})

\* C15 as claimed: every encoder lays an entry out as name length, name,
\* value length, value, and every decoder returns the encoded fields from the
\* bytes of every encoder.
C15_WireLayout ==
  /\ Encoded = EncodeU32(Len(dec.seq)) \o InterleavedEntries(dec.seq)
  /\ dec.pc = "done" => (dec.status = "returned" /\ ~dec.oob /\ dec.out = dec.seq)

\* C15: Fields::push and Fields::append_field lay an entry out as name length,
\* value length, name, value, and ReadonlyFields::iterator returns the encoded
\* fields from their bytes; Serialization::SerializeRow lays an entry out as
\* name length, name, value length, value, and Serialization::DeserializeRow
\* returns the encoded fields from its bytes.
C15_WireLayoutPerCodec ==
  /\ Encoded = EncodeU32(Len(dec.seq))
                 \o (IF dec.encoder = "SerializeRow" THEN InterleavedEntries(dec.seq)
                     ELSE LengthsFirstEntries(dec.seq))
  /\ (SameCodec /\ dec.pc = "done") =>
       (dec.status = "returned" /\ ~dec.oob /\ dec.out = dec.seq)

\* two fields, one of them with name and value, written by append_field and
\* read back by the iterator
C15_Witness ==
  /\ dec.pc = "done" /\ dec.encoder = "append_field" /\ dec.prog = "iterate"
  /\ Len(dec.seq) = 2
  /\ \E i \in 1..2 : dec.seq[i].name # << >> /\ dec.seq[i].value # << >>

(***************************************************************************)
(* SpecScan: Scan of the LMDB, Leaves, Redis and Aerospike adapters over   *)
(* rows that Insert stored.  Keys are strings of the characters "0" and    *)
(* "1"; the row of a key is one field whose value spells the key.  The     *)
(* caller's result vector is a sequence of records, each the sequence of   *)
(* its fields.  The Leaves cursor's find is taken to stop at the first key *)
(* not below the one sought.                                               *)
(***************************************************************************)
MaxScan == 2

ScanKeys == { << "0" >>, << "0", "0" >>, << "0", "1" >>, << "1" >> }

ScanLens == (0 - 1)..MaxScan

\* what the caller's vector holds before the call: nothing, or a record of
\* an earlier call
Priors == { << >>, << << [name |-> << 98 >>, value |-> << 120 >>] >> >> }

\* the values a client inserts under key
RowOf(key) ==
  << [name  |-> << 97 >>,
      value |-> [i \in 1..Len(key) |-> IF key[i] = "0" THEN 48 ELSE 49]] >>

\* the place of a character in the byte order
Rank(c) ==
  CASE c = "0" -> 48 [] c = "1" -> 49 [] c = "2" -> 50 [] c = ":" -> 58 [] OTHER -> 117

\* memcmp order of two keys
RECURSIVE KeyLess(_, _)
KeyLess(a, b) ==
  IF a = << >> THEN b # << >>
  ELSE IF b = << >> THEN FALSE
  ELSE IF Head(a) = Head(b) THEN KeyLess(Tail(a), Tail(b))
  ELSE Rank(Head(a)) < Rank(Head(b))

\* the keys of S in ascending order
RECURSIVE Ascending(_)
Ascending(S) ==
  IF S = {} THEN << >>
  ELSE LET least == CHOOSE x \in S : \A y \in S : x = y \/ KeyLess(x, y)
       IN  << least >> \o Ascending(S \ {least})

\* a cursor set at key: the stored keys from key on, in order
CursorFrom(rows, key) == Ascending({ k \in DOMAIN rows : ~KeyLess(k, key) })

HasPrefix(k, p) == Len(k) >= Len(p) /\ SubSeq(k, 1, Len(p)) = p

\* std::to_string(i), i below 10
to_string(i) == << << "0", "1", "2", "3", "4", "5", "6", "7", "8", "9" >>[i + 1] >>

\* values = readonly: the fields of a new Fields assigned from stored bytes
AssignedFields(val_slice) ==
  LET h == assign([o \in {"values"} |-> Fields(o)], "values",
                  val_slice, Len(val_slice), FALSE)
  IN  Items(ViewMem(h, "values"), ViewSize(h, "values"))

\* a Scan loop of LmdbDB without its bound on the number of records
RECURSIVE LmdbDB_Scan_unbounded(_, _, _, _, _)
LmdbDB_Scan_unbounded(rows, cursor, i, len, result_) ==
  IF cursor = << >> THEN result_
  ELSE LmdbDB_Scan_unbounded(rows, Tail(cursor), i + 1, len,
                             Append(result_, AssignedFields(rows[Head(cursor)])))

\* LmdbDB::Scan, the loop: for (int i = 0; !ret && i < len; i++)
RECURSIVE LmdbDB_Scan_loop(_, _, _, _, _)
LmdbDB_Scan_loop(rows, cursor, i, len, result_) ==
  IF cursor = << >> \/ ~(i < len) THEN result_
  ELSE LmdbDB_Scan_loop(rows, Tail(cursor), i + 1, len,
                        Append(result_, AssignedFields(rows[Head(cursor)])))

\* LmdbDB::Scan(table, key, len, NULL, result)
LmdbDB_Scan(rows, key, len, result_) ==
  IF key \notin DOMAIN rows
    THEN [status |-> "kNotFound", result |-> result_]
    ELSE [status |-> "kOK",
          result |-> LmdbDB_Scan_loop(rows, CursorFrom(rows, key), 0, len, result_)]

\* LeavesDB::Scan, the loop: while (cursor_.is_valid() && count < len)
RECURSIVE LeavesDB_Scan_loop(_, _, _, _, _, _)
LeavesDB_Scan_loop(rows, table, cursor, count, len, result_) ==
  IF cursor = << >> \/ ~(count < len) THEN result_
  ELSE IF ~HasPrefix(Head(cursor), table \o << ":" >>) THEN result_
  ELSE LET data == rows[Head(cursor)]
       IN  LeavesDB_Scan_loop(rows, table, Tail(cursor), count + 1, len,
                              Append(result_, LeavesDB_DeserializeRow(data, 0, Len(data))))

\* LeavesDB::Scan(table, key, len, NULL, result)
LeavesDB_Scan(rows, table, key, len, result_) ==
  [status |-> "kOK",
   result |-> LeavesDB_Scan_loop(rows, table, CursorFrom(rows, full_key(table, key)),
                                 0, len, << >>)]

\* RedisDB::BuildRedisKey
BuildRedisKey(table, key) == table \o << ":" >> \o key

\* HMSET redis_key name value ...: the hash at redis_key, created if absent
RedisDB_Update(rows, table, key, items) ==
  LET redis_key == BuildRedisKey(table, key)
      hash == IF redis_key \in DOMAIN rows THEN rows[redis_key] ELSE << >>
  IN  [status |-> "kOK", rows |-> Put(rows, redis_key, AerospikeDB_SetRecord(hash, items))]

\* RedisDB::Read(table, key, NULL, result): HGETALL, each pair added to result
RedisDB_Read(rows, table, key) ==
  LET redis_key == BuildRedisKey(table, key)
  IN  IF redis_key \notin DOMAIN rows
        THEN [status |-> "kNotFound", fields |-> << >>]
        ELSE LET h == PushAll([o \in {"result"} |-> Fields(o)], "result", rows[redis_key])
             IN  [status |-> "kOK",
                  fields |-> Items(ViewMem(h, "result"), ViewSize(h, "result"))]

\* RedisDB::Scan, the loop over the keys a SCAN batch returned
RECURSIVE RedisDB_Scan_loop(_, _, _, _, _, _)
RedisDB_Scan_loop(rows, table, keys, count, len, result_) ==
  IF keys = << >> \/ ~(count < len) THEN [count |-> count, result |-> result_]
  ELSE LET found_key == Head(keys)
           key_only  == SubSeq(found_key, Len(table) + 2, Len(found_key))
       IN  RedisDB_Scan_loop(rows, table, Tail(keys), count + 1, len,
                             Append(result_, RedisDB_Read(rows, table, key_only).fields))

\* RedisDB::Scan(table, key, len, NULL, result); keys: the keys matching
\* table:key* in the order SCAN returns them
RedisDB_Scan(rows, table, key, len, result_, keys) ==
  LET done == RedisDB_Scan_loop(rows, table, keys, 0, len, result_)
  IN  [status |-> IF done.count > 0 THEN "kOK" ELSE "kNotFound", result |-> done.result]

\* as_key_init_str(&as_key, ns, table, key)
as_key_init_str(table, key) == << table, key >>

\* AerospikeDB::Update (and Insert), sync mode: the bins of values are put
\* into the record at the key
AerospikeDB_Update(rows, table, key, items) ==
  LET as_key == as_key_init_str(table, key)
      stored == IF as_key \in DOMAIN rows THEN rows[as_key] ELSE << >>
      rec    == AerospikeDB_SetRecord(<< >>, items)
  IN  [status |-> "kOK", rows |-> Put(rows, as_key, AerospikeDB_SetRecord(stored, rec))]

\* AerospikeDB::Read(table, key, NULL, result), sync mode, result new
AerospikeDB_Read(rows, table, key) ==
  LET as_key == as_key_init_str(table, key)
  IN  IF as_key \notin DOMAIN rows
        THEN [status |-> "kNotFound", fields |-> << >>]
        ELSE LET h == AerospikeDB_GetRecord([o \in {"record"} |-> Fields(o)], rows[as_key],
                                            "record", [null |-> TRUE, names |-> {}], << >>)
             IN  [status |-> "kOK",
                  fields |-> Items(ViewMem(h, "record"), ViewSize(h, "record"))]

\* AerospikeDB::Scan: for (int i = 0; i < record_count; i++)
RECURSIVE AerospikeDB_Scan_loop(_, _, _, _, _, _)
AerospikeDB_Scan_loop(rows, table, key, i, record_count, result_) ==
  IF ~(i < record_count) THEN result_
  ELSE LET r == AerospikeDB_Read(rows, table, key \o to_string(i))
       IN  AerospikeDB_Scan_loop(rows, table, key, i + 1, record_count,
                                 IF r.status = "kOK" THEN Append(result_, r.fields)
                                 ELSE result_)

\* AerospikeDB::Scan(table, key, record_count, NULL, result)
AerospikeDB_Scan(rows, table, key, record_count, result_) ==
  [status |-> "kOK",
   result |-> AerospikeDB_Scan_loop(rows, table, key, 0, record_count, result_)]

InitScan ==
  /\ \E a \in {"lmdb", "leaves", "redis", "aerospike"} :
       db = [adapter |-> a, rows |-> NoRows]
  /\ heap = [o \in ObjIds |-> Fields(o)]
  /\ pushed = [o \in ObjIds |-> [tracked |-> TRUE, seq |-> << >>]]
  /\ result = NoSlice
  /\ op = [name |-> "Init"]
  /\ assigned = << >>
  /\ dec = DecIdle

RedisInsert(key, values) ==
  /\ db.adapter = "redis"
  /\ DbDone("Insert", key, values, << >>, RedisDB_Update(db.rows, Table, key, values))

AerospikeInsert(key, values) ==
  /\ db.adapter = "aerospike"
  /\ DbDone("Insert", key, values, << >>, AerospikeDB_Update(db.rows, Table, key, values))

ScanDone(key, len, prior, r) ==
  /\ op' = [name |-> "Scan", key |-> key, len |-> len, prior |-> prior,
            status |-> r.status, result |-> r.result]
  /\ UNCHANGED << heap, result, pushed, assigned, dec, db >>

LmdbScan(key, len, prior) ==
  /\ db.adapter = "lmdb"
  /\ ScanDone(key, len, prior, LmdbDB_Scan(db.rows, key, len, prior))

LeavesScan(key, len, prior) ==
  /\ db.adapter = "leaves"
  /\ ScanDone(key, len, prior, LeavesDB_Scan(db.rows, Table, key, len, prior))

RedisScan(key, len, prior) ==
  /\ db.adapter = "redis"
  /\ \E keys \in Orders({ k \in DOMAIN db.rows : HasPrefix(k, BuildRedisKey(Table, key)) }) :
       ScanDone(key, len, prior, RedisDB_Scan(db.rows, Table, key, len, prior, keys))

AerospikeScan(key, len, prior) ==
  /\ db.adapter = "aerospike"
  /\ ScanDone(key, len, prior, AerospikeDB_Scan(db.rows, Table, key, len, prior))

NextScan ==
  \/ \E key \in ScanKeys : LmdbInsert(key, RowOf(key))
  \/ \E key \in ScanKeys : LeavesInsert(key, RowOf(key))
  \/ \E key \in ScanKeys : RedisInsert(key, RowOf(key))
  \/ \E key \in ScanKeys : AerospikeInsert(key, RowOf(key))
  \/ \E key \in ScanKeys, len \in ScanLens, prior \in Priors : LmdbScan(key, len, prior)
  \/ \E key \in ScanKeys, len \in ScanLens, prior \in Priors : LeavesScan(key, len, prior)
  \/ \E key \in ScanKeys, len \in ScanLens, prior \in Priors : RedisScan(key, len, prior)
  \/ \E key \in ScanKeys, len \in ScanLens, prior \in Priors : AerospikeScan(key, len, prior)

SpecScan == InitScan /\ [][NextScan]_vars

\* the records one Scan call appended to the caller's vector
Appended ==
  IF db.adapter = "leaves" THEN op.result
  ELSE SubSeq(op.result, Len(op.prior) + 1, Len(op.result))

\* the number of rows the adapter holds
StoredCount == Cardinality(DOMAIN db.rows)

\* C16: one call Scan(table, key, record_count, NULL, result) appends at most
\* record_count records to result, none when record_count <= 0, and each
\* appended record holds the fields of one stored row.
C16_ScanBound ==
  op.name = "Scan" =>
    /\ Len(Appended) <= (IF op.len <= 0 THEN 0 ELSE op.len)
    /\ Len(op.result) >= Len(Appended)
    /\ \A i \in 1..Len(Appended) :
         \E k \in ScanKeys : Appended[i] = RowOf(k)

\* a Scan that stopped at record_count with more rows left, on a vector that
\* held a record
C16_Witness ==
  /\ op.name = "Scan" /\ op.len = MaxScan /\ op.prior # << >>
  /\ Len(Appended) = op.len
  /\ StoredCount = Cardinality(ScanKeys)
  /\ op.key = << "0" >>

C18_FiniteIteration ==
  (dec.prog = "iterate" /\ dec.encoder \in {"push", "append_field"}) =>
    LET count == size(dec.mem, dec.len)
    IN  /\ count = Len(dec.seq)
        /\ count = size(SubSeq(dec.mem, 1, SizeofU32), SizeofU32)
        /\ empty(dec.mem, dec.len) <=> (count = 0)
        /\ ~dec.oob /\ dec.status # "segv"
        /\ dec.ptr <= end(dec.mem, dec.len)
        /\ Len(dec.out) <= count
        /\ dec.pc = "test" => (dec.ptr = end(dec.mem, dec.len)) = (Len(dec.out) = count)
        /\ dec.pc = "done" =>
             /\ dec.status = "returned"
             /\ dec.ptr = end(dec.mem, dec.len)
             /\ Len(dec.out) = count
             /\ Items(dec.mem, dec.len) = dec.out

\* the loop over a record of two fields that push encoded has ended
C18_Witness ==
  /\ dec.prog = "iterate" /\ dec.encoder = "push" /\ dec.pc = "done"
  /\ size(dec.mem, dec.len) = 2
  /\ Len(dec.out) = 2

(***************************************************************************)
(* Spec: the view of an object after its constructor, push, clear,         *)
(* operator= and filter (clear and push on its destination).               *)
(***************************************************************************)
\* C19: after the constructor and after every push, clear and assignment from
\* a ReadonlyFields, data_ of the object is the slice over its own buffer_ at
\* the buffer's current length, so size(), begin() and end() read the buffer
\* as it is now.
C19_OwnBufferView ==
  \A o \in ObjIds :
    /\ heap[o].data_ = SliceAt(o, "buffer_", Len(heap[o].buffer_))
    /\ ViewMem(heap, o) = heap[o].buffer_
    /\ end(ViewMem(heap, o), ViewSize(heap, o)) = Len(heap[o].buffer_)
    /\ size(ViewMem(heap, o), ViewSize(heap, o)) = ReadU32(heap[o].buffer_, 0)

\* b was assigned the longer record of u, which holds two fields
C19_Witness ==
  /\ op.name = "operator=" /\ op.recv = "b" /\ op.arg = "u"
  /\ size(heap["u"].buffer_, Len(heap["u"].buffer_)) = 2
  /\ heap["b"].buffer_ = heap["u"].buffer_
  /\ heap["b"].data_.size = Len(heap["u"].buffer_)

(***************************************************************************)
(* SpecFilterList: the two decoders that take the wanted names as a list   *)
(* (std::vector<std::string>), each over the row as its own encoder wrote  *)
(* it.  dec holds the call's inputs: the row, the list and whether the     *)
(* build defines NDEBUG; op holds what the last call did.                  *)
(***************************************************************************)
ListNames == { << 97 >>, << 98 >> }

FieldLists == UNION { [1..n -> ListNames] : n \in 0..MaxFields }

\* the loop of Serialization::DeserializeRowFilterImpl from its round i on; k
\* is the position of filter_iter in fields (0-based)
RECURSIVE DeserializeRowFilterImpl_loop(_, _, _, _, _, _, _, _)
DeserializeRowFilterImpl_loop(data, p, lim, i, field_count, fields, k, ndebug) ==
  IF ~(i < field_count /\ k # Len(fields)) THEN [status |-> "returned", values |-> << >>]
  ELSE IF ~ndebug /\ ~(p < lim) THEN [status |-> "aborted", values |-> << >>]
  ELSE IF ~CanRead(data, p, SizeofU32) THEN [status |-> "segv", values |-> << >>]
  ELSE
    LET name_len == ReadU32(data, p)
        name_at  == p + SizeofU32
    IN  IF ~CanRead(data, name_at, name_len + SizeofU32)
          THEN [status |-> "segv", values |-> << >>]
        ELSE
          LET value_len    == ReadU32(data, name_at + name_len)
              value_at     == name_at + name_len + SizeofU32
              field_buffer == SubSeq(data, name_at + 1, name_at + name_len)
          IN  IF ~CanRead(data, value_at, value_len)
                THEN [status |-> "segv", values |-> << >>]
              ELSE
                LET value_buffer == SubSeq(data, value_at + 1, value_at + value_len)
                    match == fields[k + 1] = field_buffer
                    rest  == DeserializeRowFilterImpl_loop(
                               data, value_at + value_len, lim, i + 1, field_count,
                               fields, IF match THEN k + 1 ELSE k, ndebug)
                IN  IF match
                      THEN [rest EXCEPT !.values =
                              << [name |-> field_buffer, value |-> value_buffer] >> \o @]
                      ELSE rest

\* Serialization::DeserializeRowFilterImpl(values, data_ptr, data_len, fields)
DeserializeRowFilterImpl(data, data_len, fields, ndebug) ==
  IF ~ndebug /\ ~(SizeofU32 <= data_len) THEN [status |-> "aborted", values |-> << >>]
  ELSE IF ~CanRead(data, 0, SizeofU32) THEN [status |-> "segv", values |-> << >>]
  ELSE
    LET field_count == ReadU32(data, 0)
        r == DeserializeRowFilterImpl_loop(data, SizeofU32, data_len, 0, field_count,
                                           fields, 0, ndebug)
    IN  IF r.status = "returned" /\ ~ndebug /\ Len(r.values) # Len(fields)
          THEN [r EXCEPT !.status = "aborted"]
          ELSE r

InitFilterList ==
  \E row \in EntrySeqs(MaxFields), fields \in FieldLists, ndebug \in BOOLEAN :
    /\ dec = [pc |-> "call", row |-> row, fields |-> fields, ndebug |-> ndebug]
    /\ op = [name |-> "SerializeRow"]
    /\ heap = [o \in ObjIds |-> Fields(o)]
    /\ pushed = [o \in ObjIds |-> [tracked |-> FALSE, seq |-> << >>]]
    /\ result = NoSlice
    /\ assigned = << >>
    /\ db = DbIdle

\* serializer.DeserializeRowFilter(values, serializer.SerializeRow(row), fields)
Serialization_DeserializeRowFilter ==
  /\ dec.pc = "call"
  /\ op' = [name |-> "Serialization::DeserializeRowFilter"]
             @@ LET data == SerializeRowImpl(dec.row)
                IN  DeserializeRowFilterImpl(data, Len(data), dec.fields, dec.ndebug)
  /\ UNCHANGED << heap, result, pushed, assigned, dec, db >>

\* LeavesDB::DeserializeRowFilter(values, data, fields), data from SerializeRow
LeavesDB_DeserializeRowFilter_list ==
  /\ dec.pc = "call"
  /\ op' = [name |-> "LeavesDB::DeserializeRowFilter", status |-> "returned",
            values |-> LeavesDB_DeserializeRowFilter(
                         LeavesDB_SerializeRow(dec.row),
                         { dec.fields[j] : j \in 1..Len(dec.fields) })]
  /\ UNCHANGED << heap, result, pushed, assigned, dec, db >>

NextFilterList ==
  \/ Serialization_DeserializeRowFilter
  \/ LeavesDB_DeserializeRowFilter_list

SpecFilterList == InitFilterList /\ [][NextFilterList]_vars

\* C20: from a row and a list of wanted names, DeserializeRowFilter returns
\* the fields of the row whose names are in the list, in the row's order,
\* whatever the order of the list, and a listed name the row lacks is left
\* out without an abort.
C20_OrderedListFilter ==
  op.name \in {"Serialization::DeserializeRowFilter", "LeavesDB::DeserializeRowFilter"} =>
    /\ op.status = "returned"
    /\ op.values = SelectSeq(dec.row,
                     LAMBDA f : \E j \in 1..Len(dec.fields) : dec.fields[j] = f.name)

(***************************************************************************)
(* SpecRoundTrip: DeserializeRow(values, SerializeRow(v)) for a vector     *)
(* values that may hold fields of an earlier call.  The decoder is the     *)
(* step actions of SpecDecode; dec.out is values, dec.seq is v and          *)
(* dec.prior is what values held at the call.                              *)
(***************************************************************************)
PriorValues == { << >>, << [name |-> << 98 >>, value |-> << 120 >>] >> }

InitRoundTrip ==
  \E seq \in EntrySeqs(MaxFields), prior \in PriorValues, g \in GarbageBytes,
     ndebug \in BOOLEAN :
    LET encoded == SerializeRowImpl(seq)
    IN  /\ dec = [prog |-> "DeserializeRow", pc |-> "start", ndebug |-> ndebug,
                  mem |-> encoded \o [i \in 1..TailLen |-> g],
                  len |-> Len(encoded), ptr |-> 0, i |-> 0, field_count |-> 0,
                  out |-> prior, oob |-> FALSE, status |-> "running",
                  encoder |-> "SerializeRow", seq |-> seq, prior |-> prior]
        /\ heap = [o \in ObjIds |-> Fields(o)]
        /\ result = NoSlice
        /\ op = [name |-> "SerializeRow"]
        /\ pushed = [o \in ObjIds |-> [tracked |-> TRUE, seq |-> << >>]]
        /\ assigned = << >>
        /\ db = DbIdle

NextRoundTrip ==
  \/ DeserStart
  \/ DeserField
  \/ DeserEnd

SpecRoundTrip == InitRoundTrip /\ [][NextRoundTrip]_vars

\* C21: DeserializeRow on the bytes SerializeRow wrote for v returns with
\* values equal to v field by field, whatever values held before; no assert
\* of DeserializeRowImpl fails and no byte outside the data is read.
C21_SerializationRoundTrip ==
  /\ dec.status \notin {"aborted", "segv"}
  /\ ~dec.oob
  /\ dec.pc = "loop" => dec.out = SubSeq(dec.seq, 1, dec.i)
  /\ dec.pc = "done" => (dec.status = "returned" /\ dec.out = dec.seq)

\* a vector of two fields, one with an empty name and one with an empty
\* value, was decoded into a vector that held a field before
C21_Witness ==
  /\ dec.pc = "done" /\ dec.status = "returned"
  /\ Len(dec.seq) = 2
  /\ \E i, j \in 1..2 : dec.seq[i].name = << >> /\ dec.seq[j].value = << >>
  /\ dec.prior # << >>
  /\ dec.out = dec.seq

(***************************************************************************)
(* SpecMergeVector: Serialization::MergeUpdate on a vector of fields.  dec *)
(* holds current_values, update_values, whether the build defines NDEBUG   *)
(* and the number of calls made; op holds what the last call did.          *)
(***************************************************************************)
MaxCalls == 2

\* the position of the first field of current named name, 0 if there is none
FirstNamed(current, name) ==
  IF \E j \in 1..Len(current) : current[j].name = name
    THEN CHOOSE j \in 1..Len(current) :
           /\ current[j].name = name
           /\ \A k \in 1..(j - 1) : current[k].name # name
    ELSE 0

\* MergeUpdate giving the new value to every field of the name
RECURSIVE MergeUpdate_every_match(_, _, _)
MergeUpdate_every_match(current_values, update_values, ndebug) ==
  IF update_values = << >> THEN [status |-> "returned", current_values |-> current_values]
  ELSE LET new_field == Head(update_values)
           found     == FirstNamed(current_values, new_field.name) # 0
       IN  IF ~found /\ ~ndebug
             THEN [status |-> "aborted", current_values |-> current_values]
             ELSE MergeUpdate_every_match(
                    [j \in 1..Len(current_values) |->
                       IF current_values[j].name = new_field.name
                         THEN [current_values[j] EXCEPT !.value = new_field.value]
                         ELSE current_values[j]],
                    Tail(update_values), ndebug)

\* Serialization::MergeUpdate(current_values, update_values)
RECURSIVE MergeUpdate(_, _, _)
MergeUpdate(current_values, update_values, ndebug) ==
  IF update_values = << >> THEN [status |-> "returned", current_values |-> current_values]
  ELSE LET new_field == Head(update_values)
           at        == FirstNamed(current_values, new_field.name)
           found     == at # 0
       IN  IF ~found /\ ~ndebug
             THEN [status |-> "aborted", current_values |-> current_values]
           ELSE IF ~found
             THEN MergeUpdate(current_values, Tail(update_values), ndebug)
           ELSE MergeUpdate([current_values EXCEPT ![at].value = new_field.value],
                            Tail(update_values), ndebug)

InitMergeVector ==
  \E cur \in EntrySeqs(MaxFields), upd \in EntrySeqs(MaxFields), ndebug \in BOOLEAN :
    /\ dec = [pc |-> "call", current_values |-> cur, update_values |-> upd,
              ndebug |-> ndebug, calls |-> 0]
    /\ op = [name |-> "Serialization"]
    /\ heap = [o \in ObjIds |-> Fields(o)]
    /\ pushed = [o \in ObjIds |-> [tracked |-> FALSE, seq |-> << >>]]
    /\ result = NoSlice
    /\ assigned = << >>
    /\ db = DbIdle

\* serializer.MergeUpdate(current_values, update_values)
MergeUpdateCall ==
  /\ dec.pc = "call"
  /\ dec.calls < MaxCalls
  /\ LET r == MergeUpdate(dec.current_values, dec.update_values, dec.ndebug)
     IN  /\ dec' = [dec EXCEPT !.current_values = r.current_values,
                               !.calls = @ + 1,
                               !.pc = IF r.status = "aborted" THEN "done" ELSE "call"]
         /\ op' = [name |-> "MergeUpdate", status |-> r.status,
                   before |-> dec.current_values]
  /\ UNCHANGED << heap, result, pushed, assigned, db >>

NextMergeVector == MergeUpdateCall

SpecMergeVector == InitMergeVector /\ [][NextMergeVector]_vars

\* every name of update_values is the name of a field of the vector
AllNamesOccur(update_values, current_values) ==
  \A j \in 1..Len(update_values) : HasName(current_values, update_values[j].name)

\* the value the last field of update_values named name carries
LastValue(update_values, name) ==
  LET last == CHOOSE j \in 1..Len(update_values) :
                /\ update_values[j].name = name
                /\ \A k \in (j + 1)..Len(update_values) : update_values[k].name # name
  IN  update_values[last].value

\* C22: when every name of the update occurs in current, MergeUpdate returns
\* with as many fields, of the same names in the same order; the first field
\* of each updated name carries the update's value for it, every other field
\* its old value; a second call with the same update changes nothing.
C22_VectorMerge ==
  (op.name = "MergeUpdate" /\ AllNamesOccur(dec.update_values, op.before)) =>
    /\ op.status = "returned"
    /\ Len(dec.current_values) = Len(op.before)
    /\ \A j \in 1..Len(op.before) :
         /\ dec.current_values[j].name = op.before[j].name
         /\ dec.current_values[j].value =
              IF /\ HasName(dec.update_values, op.before[j].name)
                 /\ FirstNamed(op.before, op.before[j].name) = j
                THEN LastValue(dec.update_values, op.before[j].name)
                ELSE op.before[j].value
    /\ dec.calls >= 2 => dec.current_values = op.before

\* two fields of one name with different values, the update names them and
\* changes the first: the first call is done
C22_Witness ==
  /\ op.name = "MergeUpdate" /\ dec.calls = 1
  /\ Len(op.before) = 2 /\ op.before[1].name = op.before[2].name
  /\ dec.update_values # << >>
  /\ AllNamesOccur(dec.update_values, op.before)
  /\ dec.current_values[1].value # op.before[1].value
  /\ dec.current_values[2].value # dec.current_values[1].value

(***************************************************************************)
(* SpecLifecycle: Init and Cleanup of the LMDB and Leaves adapters, called *)
(* by several DB instances, one per thread.  db holds the adapter, the     *)
(* statics ref_cnt_ and the environment (env_ / storage_), the holder of   *)
(* the static mutex, and for each thread its position and the state of its *)
(* instance.  opens and closes count mdb_env_open / MapStorage() and       *)
(* mdb_env_close / storage_.reset().  A thread whose instance was cleaned  *)
(* up may start over with a new instance.                                  *)
(***************************************************************************)
NumInstances == 2
MaxRounds == 2

Threads == 1..NumInstances

Adapters == {"lmdb", "leaves"}

\* where an Init throws: nowhere; LeavesDB "Unknown format"; LmdbDB between
\* ref_cnt_++ and mdb_env_open; mdb_env_open or the MapStorage constructor;
\* LmdbDB after mdb_env_open.  "null_deref": (*storage_) with storage_ null
\* ends the process instead of going on.
FailPoints == {"none", "format", "before_open", "open", "after_open", "null_deref"}

\* Cleanup closing the environment whatever the count
Cleanup_closes_always(adapter, ref_cnt_) == TRUE

\* LmdbDB::Init: if (ref_cnt_++) return;  LeavesDB::Init: ref_cnt_++; if (ref_cnt_ == 1)
\* ref_cnt_ is the count before the increment
Init_opens(adapter, ref_cnt_) ==
  IF adapter = "lmdb" THEN ref_cnt_ = 0 ELSE ref_cnt_ + 1 = 1

\* LmdbDB::Cleanup: if (--ref_cnt_) return;  LeavesDB::Cleanup: ref_cnt_--; if (ref_cnt_ == 0)
\* ref_cnt_ is the count before the decrement
Cleanup_closes(adapter, ref_cnt_) ==
  IF adapter = "lmdb" THEN ~(ref_cnt_ - 1 # 0) ELSE ref_cnt_ - 1 = 0

InitLifecycle ==
  \E adapter \in Adapters :
    /\ db = [adapter |-> adapter, ref_cnt_ |-> 0, env |-> "unopened",
             opens |-> 0, closes |-> 0, mutex |-> 0, null_deref |-> FALSE,
             th |-> [t \in Threads |-> [pc |-> "idle", inst |-> "new", rounds |-> 0,
                                        outcome |-> "none"]]]
    /\ op = [name |-> "static"]
    /\ heap = [o \in ObjIds |-> Fields(o)]
    /\ pushed = [o \in ObjIds |-> [tracked |-> FALSE, seq |-> << >>]]
    /\ result = NoSlice
    /\ assigned = << >>
    /\ dec = DecIdle

\* Init(): const std::lock_guard<std::mutex> lock(mutex_), by a new instance
InitLock(t) ==
  /\ db.th[t].pc = "idle"
  /\ \/ db.th[t].inst = "new"
     \/ db.th[t].inst = "cleaned" /\ db.th[t].rounds < MaxRounds
  /\ db.mutex = 0
  /\ db' = [db EXCEPT !.mutex = t, !.th[t].pc = "Init:locked", !.th[t].inst = "new"]
  /\ op' = [name |-> "Init", thread |-> t, step |-> "lock"]
  /\ UNCHANGED << heap, result, pushed, assigned, dec >>

\* Init() from the lock to the point where the environment is opened: the
\* properties are read, ref_cnt_ is incremented and tested
InitCount(t, fail) ==
  /\ db.th[t].pc = "Init:locked"
  /\ fail \in {"none", "format", "before_open", "null_deref"}
  /\ fail = "format" => db.adapter = "leaves"
  /\ fail = "before_open" => (db.adapter = "lmdb" /\ Init_opens(db.adapter, db.ref_cnt_))
  /\ fail = "null_deref" =>
       (db.adapter = "leaves" /\ ~Init_opens(db.adapter, db.ref_cnt_) /\ db.env # "open")
  /\ db' =
       IF fail = "format"
         THEN [db EXCEPT !.th[t].pc = "Init:unlock", !.th[t].outcome = "threw"]
       ELSE IF ~Init_opens(db.adapter, db.ref_cnt_)
         THEN [db EXCEPT !.ref_cnt_ = @ + 1,
                         !.null_deref = @ \/ (db.adapter = "leaves" /\ db.env # "open"),
                         !.th[t].pc = "Init:unlock",
                         !.th[t].outcome = IF fail = "null_deref" THEN "crashed"
                                           ELSE "initialised"]
       ELSE IF fail = "before_open"
         THEN [db EXCEPT !.ref_cnt_ = @ + 1,
                         !.th[t].pc = "Init:unlock", !.th[t].outcome = "threw"]
       ELSE [db EXCEPT !.ref_cnt_ = @ + 1, !.th[t].pc = "Init:open"]
  /\ op' = [name |-> "Init", thread |-> t, step |-> "count"]
  /\ UNCHANGED << heap, result, pushed, assigned, dec >>

\* mdb_env_open and the transaction that opens dbi_; the MapStorage constructor
InitOpen(t, fail) ==
  /\ db.th[t].pc = "Init:open"
  /\ fail \in {"none", "open", "after_open"}
  /\ fail = "after_open" => db.adapter = "lmdb"
  /\ db' =
       IF fail = "open"
         THEN [db EXCEPT !.th[t].pc = "Init:unlock", !.th[t].outcome = "threw"]
         ELSE [db EXCEPT !.env = "open", !.opens = @ + 1,
                         !.th[t].pc = "Init:unlock",
                         !.th[t].outcome = IF fail = "after_open" THEN "threw"
                                           ELSE "initialised"]
  /\ op' = [name |-> "Init", thread |-> t, step |-> "open"]
  /\ UNCHANGED << heap, result, pushed, assigned, dec >>

\* Init() returns or throws: the lock_guard is destroyed
InitUnlock(t) ==
  /\ db.th[t].pc = "Init:unlock"
  /\ db' = [db EXCEPT !.mutex = 0, !.th[t].pc = "idle",
                      !.th[t].inst = db.th[t].outcome]
  /\ op' = [name |-> "Init", thread |-> t, step |-> "unlock"]
  /\ UNCHANGED << heap, result, pushed, assigned, dec >>

\* Cleanup(): the lock_guard, by an instance whose Init returned
CleanupLock(t) ==
  /\ db.th[t].pc = "idle" /\ db.th[t].inst = "initialised"
  /\ db.mutex = 0
  /\ db' = [db EXCEPT !.mutex = t, !.th[t].pc = "Cleanup:locked"]
  /\ op' = [name |-> "Cleanup", thread |-> t, step |-> "lock"]
  /\ UNCHANGED << heap, result, pushed, assigned, dec >>

\* the decrement of ref_cnt_ and its test
CleanupCount(t) ==
  /\ db.th[t].pc = "Cleanup:locked"
  /\ db' = [db EXCEPT !.ref_cnt_ = @ - 1,
                      !.th[t].pc = IF Cleanup_closes(db.adapter, db.ref_cnt_)
                                     THEN "Cleanup:close" ELSE "Cleanup:unlock"]
  /\ op' = [name |-> "Cleanup", thread |-> t, step |-> "count"]
  /\ UNCHANGED << heap, result, pushed, assigned, dec >>

\* mdb_close and mdb_env_close; storage_.reset()
CleanupClose(t) ==
  /\ db.th[t].pc = "Cleanup:close"
  /\ db' = [db EXCEPT !.env = "closed", !.closes = @ + 1,
                      !.th[t].pc = "Cleanup:unlock"]
  /\ op' = [name |-> "Cleanup", thread |-> t, step |-> "close"]
  /\ UNCHANGED << heap, result, pushed, assigned, dec >>

\* Cleanup() returns
CleanupUnlock(t) ==
  /\ db.th[t].pc = "Cleanup:unlock"
  /\ db' = [db EXCEPT !.mutex = 0, !.th[t].pc = "idle", !.th[t].inst = "cleaned",
                      !.th[t].rounds = @ + 1]
  /\ op' = [name |-> "Cleanup", thread |-> t, step |-> "unlock"]
  /\ UNCHANGED << heap, result, pushed, assigned, dec >>

\* every Init runs to its end without an exception
NextLifecycle ==
  \/ \E t \in Threads : InitLock(t)
  \/ \E t \in Threads : InitCount(t, "none")
  \/ \E t \in Threads : InitOpen(t, "none")
  \/ \E t \in Threads : InitUnlock(t)
  \/ \E t \in Threads : CleanupLock(t)
  \/ \E t \in Threads : CleanupCount(t)
  \/ \E t \in Threads : CleanupClose(t)
  \/ \E t \in Threads : CleanupUnlock(t)

SpecLifecycle == InitLifecycle /\ [][NextLifecycle]_vars

\* the instances that hold a count: counted in by Init, not yet counted out
Counted ==
  { t \in Threads :
      \/ db.th[t].pc \in {"Init:open", "Init:unlock", "Cleanup:locked"}
      \/ db.th[t].pc = "idle" /\ db.th[t].inst = "initialised" }

UpdateScratch ==
  /\ heap' = update(heap, "b", ViewMem(heap, "u"), ViewSize(heap, "u"))
  /\ result' = update_return(heap', "b")
  /\ op' = [name |-> "update", recv |-> "b", arg |-> "u",
            scratch |-> Len(heap["b"].update_buffer_)]
  /\ UNCHANGED << pushed, assigned, dec, db >>

NextScratch ==
  \/ UpdateScratch
  \/ Clear("b")
  \/ \E e \in PushArgs : Push("b", e.name, e.value)

SpecScratch == InitMerge /\ [][NextScratch]_vars

\* the bytes the Slice of the last update covers
Returned == SubSeq(Deref(heap, result), 1, result.size)

\* what the first update of an object with the same record returns
FirstCallReturns ==
  LET fresh == [heap EXCEPT ![op.recv].update_buffer_ = << >>]
      after == update(fresh, op.recv, ViewMem(fresh, op.arg), ViewSize(fresh, op.arg))
  IN  after[op.recv].update_buffer_

\* C24: the bytes B.update(U) returns are those the first update of an object
\* with B's record returns for U, whether update_buffer_ was empty, shorter
\* or longer than the record when the call was made.
C24_ScratchInvisible ==
  op.name = "update" =>
    /\ result = SliceAt(op.recv, "update_buffer_", Len(heap[op.recv].update_buffer_))
    /\ Returned = FirstCallReturns
    /\ Returned = EncodeU32(Len(Merged)) \o LengthsFirstEntries(Merged)

\* the update found update_buffer_ longer than the record and returned a
\* record shorter than update_buffer_ was
C24_Witness ==
  /\ op.name = "update"
  /\ op.scratch > Len(heap["b"].buffer_)
  /\ op.scratch > result.size
  /\ Len(Merged) > Len(Base)

\* C25: a call B.update(U) writes update_buffer_ of B and nothing else: B's
\* buffer_ and view, hence size() and the fields iterated, and the object U
\* are the same after the call as before, and the returned Slice lies over
\* update_buffer_.
C25_MergeFrame ==
  [][op'.name = "update" =>
       /\ heap' = [heap EXCEPT ![op'.recv].update_buffer_ = heap'[op'.recv].update_buffer_]
       /\ heap'[op'.recv].buffer_ = heap[op'.recv].buffer_
       /\ heap'[op'.recv].data_ = heap[op'.recv].data_
       /\ size(ViewMem(heap', op'.recv), ViewSize(heap', op'.recv))
            = size(ViewMem(heap, op'.recv), ViewSize(heap, op'.recv))
       /\ Items(ViewMem(heap', op'.recv), ViewSize(heap', op'.recv))
            = Items(ViewMem(heap, op'.recv), ViewSize(heap, op'.recv))
       /\ heap'[op'.arg] = heap[op'.arg]
       /\ result'.ptr = << op'.recv, "update_buffer_" >>]_vars

\* an update of a record of two fields appended a field of U to the scratch
\* buffer; the record still holds its two fields
C25_Witness ==
  /\ op.name = "update"
  /\ Len(Base) = 2
  /\ Len(Merged) = 3
  /\ size(heap["b"].buffer_, Len(heap["b"].buffer_)) = 2
  /\ Len(heap["b"].update_buffer_) > Len(heap["b"].buffer_)

(***************************************************************************)
(* SpecInitFail: the lifecycle of SpecLifecycle with an Init that may      *)
(* throw at each of its throw statements.  An instance whose Init threw    *)
(* makes no further call.                                                  *)
(***************************************************************************)
NextInitFail ==
  \/ \E t \in Threads : InitLock(t)
  \/ \E t \in Threads, fail \in FailPoints : InitCount(t, fail)
  \/ \E t \in Threads, fail \in FailPoints : InitOpen(t, fail)
  \/ \E t \in Threads : InitUnlock(t)
  \/ \E t \in Threads : CleanupLock(t)
  \/ \E t \in Threads : CleanupCount(t)
  \/ \E t \in Threads : CleanupClose(t)
  \/ \E t \in Threads : CleanupUnlock(t)

SpecInitFail == InitLifecycle /\ [][NextInitFail]_vars

\* C26: whatever Init threw before, an instance whose Init has returned and
\* that has not called Cleanup finds the shared environment open.
C26_FailedInitNotPoisoning ==
  \A t \in Threads :
    (db.th[t].inst = "initialised" /\ db.th[t].pc = "idle") => db.env = "open"

(***************************************************************************)
(* SpecTxn: the LMDB transactions of LmdbDB::Read, Scan, Update, Insert    *)
(* and Delete on one key, called by several threads.  Each mdb_ call is a  *)
(* step whose return code is 0, MDB_NOTFOUND or another error; mdb_get,    *)
(* mdb_cursor_get(MDB_SET) and mdb_del return MDB_NOTFOUND when the key is *)
(* absent.  LMDB admits one write transaction at a time: mdb_txn_begin     *)
(* without MDB_RDONLY waits while db.writer is held.  db.leaked counts the *)
(* transactions that were open when their operation returned or threw.     *)
(***************************************************************************)
LmdbCalls == {"Read", "Scan", "Update", "Insert", "Delete"}

ReturnCodes == {"0", "MDB_NOTFOUND", "error"}

TxnIdle == [call |-> "none", pc |-> "idle", txn |-> "none", cursor |-> FALSE,
            outcome |-> "none"]

InitTxn ==
  \E present \in BOOLEAN :
    /\ db = [adapter |-> "lmdb", present |-> present, writer |-> FALSE, leaked |-> 0,
             th |-> [t \in Threads |-> TxnIdle]]
    /\ op = [name |-> "Init"]
    /\ heap = [o \in ObjIds |-> Fields(o)]
    /\ pushed = [o \in ObjIds |-> [tracked |-> FALSE, seq |-> << >>]]
    /\ result = NoSlice
    /\ assigned = << >>
    /\ dec = DecIdle

\* the operation returns s with its transaction ended
Return(d, t, s) ==
  [d EXCEPT !.th[t].pc = "idle", !.th[t].outcome = s, !.th[t].txn = "none",
            !.th[t].cursor = FALSE,
            !.writer = IF d.th[t].txn = "write" THEN FALSE ELSE @]

\* throw utils::Exception(...): the operation is left with txn as it is
Throw(d, t) ==
  [d EXCEPT !.th[t].pc = "idle", !.th[t].outcome = "threw", !.th[t].txn = "none",
            !.th[t].cursor = FALSE,
            !.leaked = IF d.th[t].txn # "none" THEN @ + 1 ELSE @]

\* the return code fits the key: 0 needs the key, MDB_NOTFOUND its absence
Fits(d, rc) ==
  /\ rc = "0" => d.present
  /\ rc = "MDB_NOTFOUND" => ~d.present

\* a thread enters Read, Scan, Update, Insert or Delete
Call(t, name) ==
  /\ db.th[t].pc = "idle"
  /\ db' = [db EXCEPT !.th[t] = [TxnIdle EXCEPT !.call = name, !.pc = "mdb_txn_begin"]]
  /\ op' = [name |-> name, thread |-> t, step |-> "call"]
  /\ UNCHANGED << heap, result, pushed, assigned, dec >>

\* ret = mdb_txn_begin(env_, nullptr, flags, &txn); MDB_RDONLY in Read only
TxnBegin(t, rc) ==
  /\ db.th[t].pc = "mdb_txn_begin"
  /\ rc \in {"0", "error"}
  /\ LET call == db.th[t].call
     IN  /\ (rc = "0" /\ call # "Read") => ~db.writer
         /\ db' =
              IF rc # "0" THEN Throw(db, t)
              ELSE [db EXCEPT
                      !.writer = IF call = "Read" THEN @ ELSE TRUE,
                      !.th[t].txn = IF call = "Read" THEN "read" ELSE "write",
                      !.th[t].pc = CASE call \in {"Read", "Update"} -> "mdb_get"
                                     [] call = "Scan"   -> "mdb_cursor_open"
                                     [] call = "Insert" -> "mdb_put"
                                     [] call = "Delete" -> "mdb_del"]
  /\ op' = [name |-> db.th[t].call, thread |-> t, step |-> "mdb_txn_begin"]
  /\ UNCHANGED << heap, result, pushed, assigned, dec >>

\* ret = mdb_get(txn, dbi_, &key_slice, &val_slice) and what Read does after it
MdbGet(t, rc) ==
  /\ db.th[t].pc = "mdb_get"
  /\ Fits(db, rc)
  /\ db' =
       IF db.th[t].call = "Read"
         THEN IF rc = "MDB_NOTFOUND" THEN Return(db, t, "kNotFound")
              ELSE IF rc # "0" THEN Throw(Return(db, t, "none"), t)
              ELSE Return(db, t, "kOK")
         ELSE IF rc # "0" THEN Throw(db, t)
              ELSE [db EXCEPT !.th[t].pc = "mdb_put"]
  /\ op' = [name |-> db.th[t].call, thread |-> t, step |-> "mdb_get"]
  /\ UNCHANGED << heap, result, pushed, assigned, dec >>

\* ret = mdb_put(txn, dbi_, &key_slice, &val_slice, 0) in Update and Insert
MdbPut(t, rc) ==
  /\ db.th[t].pc = "mdb_put"
  /\ rc \in {"0", "error"}
  /\ db' = IF rc # "0" THEN Throw(db, t)
           ELSE [db EXCEPT !.th[t].pc = "mdb_txn_commit"]
  /\ op' = [name |-> db.th[t].call, thread |-> t, step |-> "mdb_put"]
  /\ UNCHANGED << heap, result, pushed, assigned, dec >>

\* ret = mdb_del(txn, dbi_, &key_slice, nullptr)
MdbDel(t, rc) ==
  /\ db.th[t].pc = "mdb_del"
  /\ Fits(db, rc)
  /\ db' = IF rc # "0" THEN Throw(db, t)
           ELSE [db EXCEPT !.th[t].pc = "mdb_txn_commit"]
  /\ op' = [name |-> db.th[t].call, thread |-> t, step |-> "mdb_del"]
  /\ UNCHANGED << heap, result, pushed, assigned, dec >>

\* ret = mdb_txn_commit(txn): the transaction is over whatever ret is
TxnCommit(t, rc) ==
  /\ db.th[t].pc = "mdb_txn_commit"
  /\ rc \in {"0", "error"}
  /\ db' = IF rc # "0" THEN Throw(Return(db, t, "none"), t)
           ELSE [Return(db, t, "kOK") EXCEPT
                   !.present = IF db.th[t].call = "Delete" THEN FALSE ELSE TRUE]
  /\ op' = [name |-> db.th[t].call, thread |-> t, step |-> "mdb_txn_commit"]
  /\ UNCHANGED << heap, result, pushed, assigned, dec >>

\* ret = mdb_cursor_open(txn, dbi_, &cursor) in Scan
CursorOpen(t, rc) ==
  /\ db.th[t].pc = "mdb_cursor_open"
  /\ rc \in {"0", "error"}
  /\ db' = IF rc # "0" THEN Throw(db, t)
           ELSE [db EXCEPT !.th[t].cursor = TRUE, !.th[t].pc = "mdb_cursor_get"]
  /\ op' = [name |-> db.th[t].call, thread |-> t, step |-> "mdb_cursor_open"]
  /\ UNCHANGED << heap, result, pushed, assigned, dec >>

\* ret = mdb_cursor_get(cursor, &key_slice, &val_slice, MDB_SET), the loop
\* over MDB_NEXT and the cleanup label of Scan
CursorGet(t, rc) ==
  /\ db.th[t].pc = "mdb_cursor_get"
  /\ Fits(db, rc)
  /\ db' = IF rc = "MDB_NOTFOUND" THEN Return(db, t, "kNotFound")
           ELSE IF rc # "0" THEN Throw(db, t)
           ELSE Return(db, t, "kOK")
  /\ op' = [name |-> db.th[t].call, thread |-> t, step |-> "mdb_cursor_get"]
  /\ UNCHANGED << heap, result, pushed, assigned, dec >>

NextTxn ==
  \/ \E t \in Threads, name \in LmdbCalls : Call(t, name)
  \/ \E t \in Threads, rc \in ReturnCodes : TxnBegin(t, rc)
  \/ \E t \in Threads, rc \in ReturnCodes : MdbGet(t, rc)
  \/ \E t \in Threads, rc \in ReturnCodes : MdbPut(t, rc)
  \/ \E t \in Threads, rc \in ReturnCodes : MdbDel(t, rc)
  \/ \E t \in Threads, rc \in ReturnCodes : TxnCommit(t, rc)
  \/ \E t \in Threads, rc \in ReturnCodes : CursorOpen(t, rc)
  \/ \E t \in Threads, rc \in ReturnCodes : CursorGet(t, rc)

SpecTxn == InitTxn /\ [][NextTxn]_vars

\* C27: no operation returns or throws with its transaction open, so the
\* write transaction slot is held only by an operation that is running.
C27_NoLeakedTxn ==
  /\ db.leaked = 0
  /\ db.writer => \E t \in Threads : db.th[t].txn = "write"

(***************************************************************************)
(* SpecAsync: the Aerospike adapter in async mode, one AerospikeDB used by *)
(* one calling thread, and the event-loop thread that runs ReadCallback /  *)
(* WriteCallback.  db holds pending_ops_, the position of the caller, the  *)
(* per-call context on the caller's stack (ctx_alive: the call whose       *)
(* context exists, 0 for none; completed), the submitted commands whose    *)
(* callback has not started, and the position of the callback.  db.uaf     *)
(* says the callback has used a context that was destroyed; such a use is  *)
(* undefined behaviour: the callback goes on with what the dead stack slot *)
(* held, or the process ends (crashed).                                    *)
(* std::condition_variable: wait(lock, pred) tests pred with the mutex     *)
(* held and, if it is false, blocks; notify_one wakes a thread that is     *)
(* blocked and is lost otherwise.                                          *)
(***************************************************************************)
MaxOps == 2

max_concurrent_ == 100

AsyncCalls == {"Read", "Update", "Delete"}

InitAsync ==
  /\ db = [adapter |-> "aerospike", pending_ops_ |-> 0, incs |-> 0, decs |-> 0,
           n |-> 0, caller |-> [pc |-> "idle", call |-> "none"],
           ctx_alive |-> 0, completed |-> FALSE, submitted |-> << >>,
           cb |-> [pc |-> "idle", call |-> 0], uaf |-> FALSE, crashed |-> FALSE]
  /\ op = [name |-> "Init"]
  /\ heap = [o \in ObjIds |-> Fields(o)]
  /\ pushed = [o \in ObjIds |-> [tracked |-> FALSE, seq |-> << >>]]
  /\ result = NoSlice
  /\ assigned = << >>
  /\ dec = DecIdle

\* Read / Update / Delete up to the submission: the loop on max_concurrent_,
\* pending_ops_++, the context ctx with completed = false
AsyncCall(name) ==
  /\ ~db.crashed
  /\ db.caller.pc = "idle" /\ db.n < MaxOps
  /\ ~(db.pending_ops_ >= max_concurrent_)
  /\ db' = [db EXCEPT !.pending_ops_ = @ + 1, !.incs = @ + 1, !.n = @ + 1,
                      !.ctx_alive = db.n + 1, !.completed = FALSE,
                      !.caller = [pc |-> "submit", call |-> name]]
  /\ op' = [name |-> name, step |-> "pending_ops_++"]
  /\ UNCHANGED << heap, result, pushed, assigned, dec >>

\* aerospike_key_get_async / put_async / remove_async: queued, or refused
\* (pending_ops_--; return kError)
AsyncSubmit(ok) ==
  /\ ~db.crashed
  /\ db.caller.pc = "submit"
  /\ db' = IF ok
             THEN [db EXCEPT !.submitted = Append(@, db.n), !.caller.pc = "wait"]
             ELSE [db EXCEPT !.pending_ops_ = @ - 1, !.decs = @ + 1, !.ctx_alive = 0,
                             !.caller = [pc |-> "idle", call |-> "none"]]
  /\ op' = [name |-> db.caller.call, step |-> "submit"]
  /\ UNCHANGED << heap, result, pushed, assigned, dec >>

\* ctx.cv.wait(lock, [&ctx] { return ctx.completed; }): the test under
\* ctx.mutex; a false test blocks the caller
CtxWait ==
  /\ ~db.crashed
  /\ db.caller.pc = "wait"
  /\ db' = [db EXCEPT !.caller.pc = IF db.completed THEN "return" ELSE "blocked"]
  /\ op' = [name |-> db.caller.call, step |-> "ctx.cv.wait"]
  /\ UNCHANGED << heap, result, pushed, assigned, dec >>

\* return ctx.status: ctx is destroyed
AsyncReturn ==
  /\ ~db.crashed
  /\ db.caller.pc = "return"
  /\ db' = [db EXCEPT !.ctx_alive = 0, !.caller = [pc |-> "idle", call |-> "none"]]
  /\ op' = [name |-> db.caller.call, step |-> "return"]
  /\ UNCHANGED << heap, result, pushed, assigned, dec >>

\* Cleanup() in async mode calls WaitForAsyncOps()
AsyncCleanup ==
  /\ ~db.crashed
  /\ db.caller.pc = "idle"
  /\ db' = [db EXCEPT !.caller = [pc |-> "WaitForAsyncOps", call |-> "Cleanup"]]
  /\ op' = [name |-> "Cleanup", step |-> "call"]
  /\ UNCHANGED << heap, result, pushed, assigned, dec >>

\* cv_.wait(lock, [this] { return pending_ops_.load() == 0; }): the test with
\* mutex_ held
WaitForAsyncOps_test ==
  /\ ~db.crashed
  /\ db.caller.pc = "WaitForAsyncOps"
  /\ db' = [db EXCEPT !.caller.pc = IF db.pending_ops_ = 0 THEN "closed"
                                    ELSE "cv_.wait"]
  /\ op' = [name |-> "Cleanup", step |-> "test"]
  /\ UNCHANGED << heap, result, pushed, assigned, dec >>

\* the test was false: the waiter releases mutex_ and blocks on cv_
WaitForAsyncOps_block ==
  /\ ~db.crashed
  /\ db.caller.pc = "cv_.wait"
  /\ db' = [db EXCEPT !.caller.pc = "cv_.blocked"]
  /\ op' = [name |-> "Cleanup", step |-> "block"]
  /\ UNCHANGED << heap, result, pushed, assigned, dec >>

\* the callback uses *ctx of a call that has returned
Stale(d) == d.ctx_alive # d.cb.call

\* ReadCallback / WriteCallback up to the end of the lock_guard block:
\* ctx->status is set, then ctx->completed = true under ctx->mutex
Callback_complete ==
  /\ ~db.crashed
  /\ db.cb.pc = "idle" /\ db.submitted # << >>
  /\ db' = [db EXCEPT !.cb = [pc |-> "ctx->cv.notify_one", call |-> Head(db.submitted)],
                      !.submitted = Tail(@),
                      !.completed = TRUE]
  /\ op' = [name |-> "Callback", step |-> "completed"]
  /\ UNCHANGED << heap, result, pushed, assigned, dec >>

\* ctx->cv.notify_one()
Callback_notify ==
  /\ ~db.crashed
  /\ db.cb.pc = "ctx->cv.notify_one"
  /\ db' = [db EXCEPT !.uaf = @ \/ Stale(db),
                      !.caller.pc = IF @ = "blocked" THEN "wait" ELSE @,
                      !.cb.pc = "pending_ops_--"]
  /\ op' = [name |-> "Callback", step |-> "ctx->cv.notify_one"]
  /\ UNCHANGED << heap, result, pushed, assigned, dec >>

\* ctx->db->pending_ops_--
Callback_decrement ==
  /\ ~db.crashed
  /\ db.cb.pc = "pending_ops_--"
  /\ db' = [db EXCEPT !.uaf = @ \/ Stale(db),
                      !.pending_ops_ = @ - 1, !.decs = @ + 1,
                      !.cb.pc = "cv_.notify_one"]
  /\ op' = [name |-> "Callback", step |-> "pending_ops_--"]
  /\ UNCHANGED << heap, result, pushed, assigned, dec >>

\* ctx->db->cv_.notify_one(); the callback returns
Callback_notify_db ==
  /\ ~db.crashed
  /\ db.cb.pc = "cv_.notify_one"
  /\ db' = [db EXCEPT !.uaf = @ \/ Stale(db),
                      !.caller.pc = IF @ = "cv_.blocked" THEN "WaitForAsyncOps" ELSE @,
                      !.cb = [pc |-> "idle", call |-> 0]]
  /\ op' = [name |-> "Callback", step |-> "cv_.notify_one"]
  /\ UNCHANGED << heap, result, pushed, assigned, dec >>

\* a use of the destroyed context that ends the process
Callback_crash ==
  /\ ~db.crashed
  /\ db.cb.pc \in {"ctx->cv.notify_one", "pending_ops_--", "cv_.notify_one"}
  /\ Stale(db)
  /\ db' = [db EXCEPT !.uaf = TRUE, !.crashed = TRUE]
  /\ op' = [name |-> "Callback", step |-> "crash"]
  /\ UNCHANGED << heap, result, pushed, assigned, dec >>

NextAsync ==
  \/ \E name \in AsyncCalls : AsyncCall(name)
  \/ \E ok \in BOOLEAN : AsyncSubmit(ok)
  \/ CtxWait
  \/ AsyncReturn
  \/ AsyncCleanup
  \/ WaitForAsyncOps_test
  \/ WaitForAsyncOps_block
  \/ Callback_complete
  \/ Callback_notify
  \/ Callback_decrement
  \/ Callback_notify_db
  \/ Callback_crash

SpecAsync == InitAsync /\ [][NextAsync]_vars

\* C28: the callback never uses the context of a call that has returned.
C28_ContextLifetime == ~db.uaf

(***************************************************************************)
(* SpecAsyncFair: SpecAsync with both threads scheduled fairly: a step of  *)
(* the caller or of the callback that stays possible is taken.  Which call *)
(* comes next, whether a submission is refused and what a use of a dead    *)
(* context does are not subject to fairness.                               *)
(***************************************************************************)
SpecAsyncFair ==
  /\ InitAsync /\ [][NextAsync]_vars
  /\ WF_vars(CtxWait) /\ WF_vars(AsyncReturn)
  /\ WF_vars(WaitForAsyncOps_test) /\ WF_vars(WaitForAsyncOps_block)
  /\ WF_vars(Callback_complete) /\ WF_vars(Callback_notify)
  /\ WF_vars(Callback_decrement) /\ WF_vars(Callback_notify_db)

\* C29: a Cleanup that has called WaitForAsyncOps returns, however the
\* callback's decrement and notify fall between the waiter's test and its
\* wait.
C29_AsyncDrain ==
  (db.caller.pc = "WaitForAsyncOps") ~> (db.caller.pc = "closed")

(***************************************************************************)
(* SpecCopy: the copy constructor, copy assignment operator and move       *)
(* constructor the compiler generates for Fields (the class declares       *)
(* none): each member is copied or moved, data_ as the plain pair of       *)
(* pointer and size it is.  b is made from u; u is mutated or destroyed    *)
(* afterwards.  buffer_ always lives on the free store (reserve(1024)), so *)
(* the move of a std::string hands its block over: the moved buffer keeps  *)
(* its address and the source is left empty.  db.copied holds the fields b *)
(* was given, db.gone the objects moved from or destroyed.                 *)
(***************************************************************************)
\* Fields(const Fields& other) and Fields& operator=(const Fields& other)
implicit_copy(h, self, other) ==
  [h EXCEPT ![self] = [buffer_ |-> h[other].buffer_,
                       update_buffer_ |-> h[other].update_buffer_,
                       data_ |-> h[other].data_]]

\* Fields(Fields&& other): the block data_ points into now belongs to self
implicit_move(h, self, other) ==
  LET moved(s) == IF s.ptr = << other, "buffer_" >>
                    THEN [s EXCEPT !.ptr = << self, "buffer_" >>] ELSE s
  IN  [h EXCEPT ![self] = [buffer_ |-> h[other].buffer_,
                           update_buffer_ |-> h[other].update_buffer_,
                           data_ |-> moved(h[other].data_)],
                ![other] = [buffer_ |-> << >>, update_buffer_ |-> << >>,
                            data_ |-> moved(h[other].data_)]]

InitCopy ==
  \E sb, su \in EntrySeqs(MaxFields) :
    /\ heap = PushAll(PushAll([o \in ObjIds |-> Fields(o)], "b", sb), "u", su)
    /\ pushed = [o \in ObjIds |-> [tracked |-> TRUE, seq |-> IF o = "b" THEN sb ELSE su]]
    /\ result = NoSlice
    /\ op = [name |-> "Fields"]
    /\ assigned = << >>
    /\ dec = DecIdle
    /\ db = [adapter |-> "none", copied |-> << >>, made |-> FALSE, gone |-> {}]

\* Fields b(u);  std::vector<Fields> copying an element
CopyConstruct ==
  /\ ~db.made
  /\ heap' = implicit_copy(heap, "b", "u")
  /\ db' = [db EXCEPT !.made = TRUE,
                      !.copied = Items(ViewMem(heap, "u"), ViewSize(heap, "u"))]
  /\ op' = [name |-> "Fields(const Fields&)", recv |-> "b", arg |-> "u"]
  /\ UNCHANGED << result, pushed, assigned, dec >>

\* b = u, both of type Fields: the implicit operator=(const Fields&) is the
\* better match than operator=(const ReadonlyFields&)
CopyAssign ==
  /\ ~db.made
  /\ heap' = implicit_copy(heap, "b", "u")
  /\ db' = [db EXCEPT !.made = TRUE,
                      !.copied = Items(ViewMem(heap, "u"), ViewSize(heap, "u"))]
  /\ op' = [name |-> "operator=(const Fields&)", recv |-> "b", arg |-> "u"]
  /\ UNCHANGED << result, pushed, assigned, dec >>

\* result.push_back(std::move(record));  std::vector<Fields> growing
MoveConstruct ==
  /\ ~db.made
  /\ heap' = implicit_move(heap, "b", "u")
  /\ db' = [db EXCEPT !.made = TRUE, !.gone = @ \cup {"u"},
                      !.copied = Items(ViewMem(heap, "u"), ViewSize(heap, "u"))]
  /\ op' = [name |-> "Fields(Fields&&)", recv |-> "b", arg |-> "u"]
  /\ UNCHANGED << result, pushed, assigned, dec >>

\* the source is mutated after the copy was made
SourcePush(e) ==
  /\ db.made /\ "u" \notin db.gone
  /\ Push("u", e.name, e.value)

SourceClear ==
  /\ db.made /\ "u" \notin db.gone
  /\ Clear("u")

\* the source goes out of scope: ~Fields() frees its buffers
SourceDestroy ==
  /\ db.made /\ "u" \notin db.gone
  /\ db' = [db EXCEPT !.gone = @ \cup {"u"}]
  /\ heap' = [heap EXCEPT !["u"].buffer_ = << >>, !["u"].update_buffer_ = << >>]
  /\ op' = [name |-> "~Fields", recv |-> "u"]
  /\ UNCHANGED << result, pushed, assigned, dec >>

NextCopy ==
  \/ CopyConstruct
  \/ CopyAssign
  \/ MoveConstruct
  \/ \E e \in PushArgs : SourcePush(e)
  \/ SourceClear
  \/ SourceDestroy

SpecCopy == InitCopy /\ [][NextCopy]_vars

\* C30: the view of a Fields made by copy construction, copy assignment or
\* move lies over that object's own buffer_ at its length, and it yields the
\* fields the object was given whatever is done to the source afterwards.
C30_CopiesOwnBytes ==
  db.made =>
    /\ heap["b"].data_ = SliceAt("b", "buffer_", Len(heap["b"].buffer_))
    /\ Items(ViewMem(heap, "b"), ViewSize(heap, "b")) = db.copied

====
